---- MODULE Spec2Model ----
(***************************************************************************)
(* Model of the Data Fabric integration layer:                             *)
(*   - RegistryCardLoader      (integration/mcop/registry_loader.py)       *)
(*   - FeedbackSignalRegistry  (integration/observability/signal_registry) *)
(*   - FeedbackSignalEmitter   (integration/observability/signal_emitter)  *)
(*   - DataFabricIntentHandler (integration/mcop/intent_handler.py)        *)
(*                                                                         *)
(* An f-string is modelled as the tuple of its pieces, str(e) as the text  *)
(* of the exception; a dict is the sequence of its (key, value) items in   *)
(* insertion order.  Every awaited call of an external collaborator is a   *)
(* step of its own, whose outcome (value or exception) is chosen by the    *)
(* collaborator.                                                           *)
(***************************************************************************)
EXTENDS Integers, Sequences, FiniteSets, TLC

VARIABLES
    card_files,        \* registry_cards/*.json in sorted order (fixed input)
    registered_cards,  \* RegistryCardLoader._registered_cards (dict name -> id)
    live,              \* ids the external asset registry currently holds
    next_id,           \* next fresh uuid the asset registry hands out
    lop,               \* the loader's lifecycle call: kind, status, locals
    prev_lop,          \* kind and status of the lifecycle call before lop
    discovered,        \* outcome of the last direct discover_cards() call
    held,              \* what the caller got from the last getter call
    tasks,             \* two lifecycle calls that overlap on one loader
    signal_files,      \* feedback_signals/*.json in sorted order (fixed input)
    signal_registry,   \* FeedbackSignalRegistry._registry (three dicts)
    loaded,            \* FeedbackSignalRegistry._loaded
    spine,             \* FeedbackSignalEmitter._spine is not None
    emissions,         \* FeedbackSignalEmitter._emissions
    spine_calls,       \* calls the observability spine has received
    next_eid,          \* next fresh uuid4 of the emitter
    emit_calls,        \* emit_metric/outcome/advisor calls since the last clear
    eop,               \* the emitter call in progress: kind, status, locals
    intent_engine,     \* DataFabricIntentHandler._intent_engine is not None
    engine_calls,      \* decompose_intent calls the intent engine has received
    iop,               \* the handle_intent call in progress: status, locals
    intent_table,      \* the module-level dict INTENT_TO_EXECUTION_UNITS at run time
    first_decomposition, \* unit names of the first successful handle_intent
    uop,               \* the execute() call of an execution unit in progress
    target_writes,     \* writes the target-side capability completed
    mcop_scheduler,    \* DataFabricCapabilityProvider._mcop_scheduler is not None
    provided_capabilities, \* DataFabricCapabilityProvider._provided_capabilities
    pop,               \* the provide_all_capabilities call in progress
    profile_lookup     \* the last get_capability_profile call and its result

loaderVars == <<card_files, registered_cards, live, next_id, lop, prev_lop, discovered,
                held, tasks>>

emitterVars == <<signal_files, signal_registry, loaded, spine, emissions,
                 spine_calls, next_eid, emit_calls, eop>>

intentVars == <<intent_engine, engine_calls, iop, intent_table, first_decomposition>>

unitVars == <<uop, target_writes>>

providerVars == <<mcop_scheduler, provided_capabilities, pop, profile_lookup>>

vars == <<card_files, registered_cards, live, next_id, lop, prev_lop, discovered,
          held, tasks,
          signal_files, signal_registry, loaded, spine, emissions,
          spine_calls, next_eid, emit_calls, eop,
          intent_engine, engine_calls, iop, intent_table, first_decomposition,
          uop, target_writes,
          mcop_scheduler, provided_capabilities, pop, profile_lookup>>

----------------------------------------------------------------------------
(* Bounds *)

MaxCards == 2      \* number of card files in registry_cards/
MaxIds == 3        \* ids the asset registry hands out in one behaviour

----------------------------------------------------------------------------
(* Python dict: items in insertion order, assignment to an existing key    *)
(* keeps its position.                                                     *)

EmptyDict == << >>

DictKeys(d) == { d[i].k : i \in 1..Len(d) }

DictHas(d, key) == \E i \in 1..Len(d) : d[i].k = key

DictGet(d, key) == LET i == CHOOSE j \in 1..Len(d) : d[j].k = key IN d[i].v

DictSet(d, key, val) ==
    IF DictHas(d, key)
    THEN [ i \in 1..Len(d) |-> IF d[i].k = key THEN [k |-> key, v |-> val] ELSE d[i] ]
    ELSE Append(d, [k |-> key, v |-> val])

DictDel(d, key) == SelectSeq(d, LAMBDA it : it.k # key)

----------------------------------------------------------------------------
(* Declarative capability cards                                            *)

\* A card file: undecodable text, or a JSON object whose metadata.name and
\* capability.type may be absent.
CardSources ==
    { [decodes |-> TRUE,  has_name |-> TRUE,  name |-> "A", has_type |-> TRUE,  type |-> "t"],
      [decodes |-> TRUE,  has_name |-> TRUE,  name |-> "B", has_type |-> TRUE,  type |-> "t"],
      [decodes |-> TRUE,  has_name |-> TRUE,  name |-> "A", has_type |-> FALSE, type |-> "t"],
      [decodes |-> TRUE,  has_name |-> FALSE, name |-> "B", has_type |-> TRUE,  type |-> "t"],
      [decodes |-> FALSE, has_name |-> TRUE,  name |-> "B", has_type |-> TRUE,  type |-> "t"] }

SeqsUpTo(S, n) == UNION { [1..m -> S] : m \in 0..n }

\* _load_card_from_file: json.load raises JSONDecodeError on undecodable
\* text; absent fields take the defaults of dict.get.
load_card_from_file(src) ==
    IF ~src.decodes
    THEN [raised |-> TRUE, card |-> [name |-> "", capability_type |-> ""]]
    ELSE [raised |-> FALSE,
          card |-> [name |-> IF src.has_name THEN src.name ELSE "",
                    capability_type |-> IF src.has_type THEN src.type ELSE ""]]

\* Mutant of discover_cards: the first file that raises ends the discovery.
RECURSIVE discover_cards_aborts(_)
discover_cards_aborts(files) ==
    IF files = << >> THEN << >>
    ELSE LET r == load_card_from_file(Head(files))
         IN  IF r.raised THEN << >>
             ELSE <<r.card>> \o discover_cards_aborts(Tail(files))

\* discover_cards: every file in sorted order, a file that raises is skipped.
RECURSIVE discover_cards(_)
discover_cards(files) ==
    IF files = << >> THEN << >>
    ELSE LET r == load_card_from_file(Head(files))
         IN  IF r.raised THEN discover_cards(Tail(files))
             ELSE <<r.card>> \o discover_cards(Tail(files))

----------------------------------------------------------------------------
(* RegistryCardLoader.load_all / unload_all                                *)

\* The capability provider as constructed, without a scheduler.
ProviderAtRest ==
    /\ mcop_scheduler = FALSE
    /\ provided_capabilities = {}
    /\ pop = [status |-> "idle"]
    /\ profile_lookup = [name |-> ""]

\* No execution unit has been invoked.
UnitsAtRest ==
    /\ uop = [status |-> "idle"]
    /\ target_writes = << >>

\* The intent handler as constructed, without an intent engine.
IntentHandlerAtRest ==
    /\ intent_engine = FALSE
    /\ engine_calls = << >>
    /\ iop = [status |-> "idle"]
    /\ intent_table = << >>
    /\ first_decomposition = [seen |-> FALSE]

\* The emitter as constructed, with no signal files.
EmitterAtRest ==
    /\ signal_files = << >>
    /\ signal_registry = [metrics |-> << >>, outcomes |-> << >>, advisors |-> << >>]
    /\ loaded = FALSE
    /\ spine = FALSE
    /\ emissions = << >>
    /\ spine_calls = << >>
    /\ next_eid = 1
    /\ emit_calls = 0
    /\ eop = [kind |-> "none", status |-> "idle"]

IdleOp == [kind |-> "none", status |-> "idle", todo |-> << >>,
           results |-> EmptyDict, calls |-> << >>, snapshot |-> << >>]

Busy == lop.status = "awaiting"

\* Mutant of Advance: the loop stops one item early.
Advance_stops_early(op) ==
    IF Len(op.todo) <= 1 THEN [op EXCEPT !.status = "returned"]
    ELSE [op EXCEPT !.status = "awaiting"]

\* What load_all does once its awaited call (if any) has completed: return
\* when the loop is over, otherwise suspend in the next register call.
Advance(op) ==
    IF op.todo = << >> THEN [op EXCEPT !.status = "returned"]
    ELSE [op EXCEPT !.status = "awaiting"]

\* load_all up to its first await.
StartLoadAll ==
    /\ ~Busy
    /\ prev_lop' = [kind |-> lop.kind, status |-> lop.status]
    /\ lop' = Advance([kind |-> "load", status |-> "awaiting",
                       todo |-> discover_cards(card_files),
                       results |-> EmptyDict, calls |-> << >>,
                       snapshot |-> registered_cards])
    /\ UNCHANGED <<card_files, registered_cards, live, next_id>>
    /\ UNCHANGED <<discovered, held, tasks, emitterVars, intentVars, unitVars, providerVars>>

\* The body of the try block after register_capability returned card_id.
load_all_registered(op, d, card, card_id) ==
    [op |-> Advance([op EXCEPT !.todo = Tail(op.todo),
                               !.results = DictSet(op.results, card.name, card_id),
                               !.calls = Append(op.calls, [card |-> card, out |-> card_id])]),
     d  |-> DictSet(d, card.name, card_id)]

\* Mutant of load_all_failed: the exception leaves load_all.
load_all_failed_propagates(op, d, card) ==
    [op |-> [op EXCEPT !.status = "raised",
                       !.calls = Append(op.calls, [card |-> card, out |-> 0])],
     d  |-> d]

\* Mutant of load_all_failed: the failed card gets an entry without an id.
load_all_failed_marked(op, d, card) ==
    [op |-> Advance([op EXCEPT !.todo = Tail(op.todo),
                               !.results = DictSet(op.results, card.name, 0),
                               !.calls = Append(op.calls, [card |-> card, out |-> 0])]),
     d  |-> d]

\* The except Exception handler of load_all: log and go on.
load_all_failed(op, d, card) ==
    [op |-> Advance([op EXCEPT !.todo = Tail(op.todo),
                               !.calls = Append(op.calls, [card |-> card, out |-> 0])]),
     d  |-> d]

\* register_capability returns a fresh id.
RegisterReturns ==
    /\ Busy /\ lop.kind = "load"
    /\ next_id <= MaxIds
    /\ LET r == load_all_registered(lop, registered_cards, Head(lop.todo), next_id)
       IN  /\ lop' = r.op
           /\ registered_cards' = r.d
    /\ live' = live \cup {next_id}
    /\ next_id' = next_id + 1
    /\ UNCHANGED <<card_files, prev_lop>>
    /\ UNCHANGED <<discovered, held, tasks, emitterVars, intentVars, unitVars, providerVars>>

\* register_capability raises an Exception.
RegisterRaises ==
    /\ Busy /\ lop.kind = "load"
    /\ LET r == load_all_failed(lop, registered_cards, Head(lop.todo))
       IN  /\ lop' = r.op
           /\ registered_cards' = r.d
    /\ UNCHANGED <<card_files, live, next_id, prev_lop>>
    /\ UNCHANGED <<discovered, held, tasks, emitterVars, intentVars, unitVars, providerVars>>

\* unload_all up to its first await: the loop runs over a copy of the items.
StartUnloadAll ==
    /\ ~Busy
    /\ prev_lop' = [kind |-> lop.kind, status |-> lop.status]
    /\ lop' = Advance([kind |-> "unload", status |-> "awaiting",
                       todo |-> registered_cards,
                       results |-> EmptyDict, calls |-> << >>,
                       snapshot |-> registered_cards])
    /\ UNCHANGED <<card_files, registered_cards, live, next_id>>
    /\ UNCHANGED <<discovered, held, tasks, emitterVars, intentVars, unitVars, providerVars>>

\* Mutant of unload_all_returned: the entry is never deleted.
unload_all_returned_keeps(op, d, item, success) ==
    [op |-> Advance([op EXCEPT !.todo = Tail(op.todo),
                               !.results = DictSet(op.results, item.k, success),
                               !.calls = Append(op.calls,
                                   [item |-> item, out |-> IF success THEN "true" ELSE "false"])]),
     d  |-> d]

\* The body of the try block after unregister_capability returned success;
\* del of a missing key raises KeyError, which the handler turns into False.
unload_all_returned(op, d, item, success) ==
    IF success /\ ~DictHas(d, item.k)
    THEN [op |-> Advance([op EXCEPT !.todo = Tail(op.todo),
                                    !.results = DictSet(op.results, item.k, FALSE),
                                    !.calls = Append(op.calls, [item |-> item, out |-> "true"])]),
          d  |-> d]
    ELSE [op |-> Advance([op EXCEPT !.todo = Tail(op.todo),
                                    !.results = DictSet(op.results, item.k, success),
                                    !.calls = Append(op.calls,
                                        [item |-> item, out |-> IF success THEN "true" ELSE "false"])]),
          d  |-> IF success THEN DictDel(d, item.k) ELSE d]

\* Mutant of unload_all_failed: the entry is dropped although the call raised.
unload_all_failed_drops(op, d, item) ==
    [op |-> Advance([op EXCEPT !.todo = Tail(op.todo),
                               !.results = DictSet(op.results, item.k, FALSE),
                               !.calls = Append(op.calls, [item |-> item, out |-> "raise"])]),
     d  |-> DictDel(d, item.k)]

\* The except Exception handler of unload_all.
unload_all_failed(op, d, item) ==
    [op |-> Advance([op EXCEPT !.todo = Tail(op.todo),
                               !.results = DictSet(op.results, item.k, FALSE),
                               !.calls = Append(op.calls, [item |-> item, out |-> "raise"])]),
     d  |-> d]

\* unregister_capability returns true or false.
UnregisterReturns ==
    /\ Busy /\ lop.kind = "unload"
    /\ \E success \in BOOLEAN :
        LET item == Head(lop.todo)
            r == unload_all_returned(lop, registered_cards, item, success)
        IN  /\ lop' = r.op
            /\ registered_cards' = r.d
            /\ live' = IF success THEN live \ {item.v} ELSE live
    /\ UNCHANGED <<card_files, next_id, prev_lop>>
    /\ UNCHANGED <<discovered, held, tasks, emitterVars, intentVars, unitVars, providerVars>>

\* unregister_capability raises an Exception.
UnregisterRaises ==
    /\ Busy /\ lop.kind = "unload"
    /\ LET r == unload_all_failed(lop, registered_cards, Head(lop.todo))
       IN  /\ lop' = r.op
           /\ registered_cards' = r.d
    /\ UNCHANGED <<card_files, live, next_id, prev_lop>>
    /\ UNCHANGED <<discovered, held, tasks, emitterVars, intentVars, unitVars, providerVars>>

\* Mutant of CancelLifecycle: the cancelled call undoes what it had done.
CancelLifecycle_rolls_back ==
    /\ Busy
    /\ lop' = [lop EXCEPT !.status = "cancelled"]
    /\ registered_cards' = lop.snapshot
    /\ UNCHANGED <<card_files, live, next_id, prev_lop>>
    /\ UNCHANGED <<discovered, held, tasks, emitterVars, intentVars, unitVars, providerVars>>

\* The caller cancels the lifecycle call while it is suspended in an await:
\* CancelledError is not an Exception, so no handler runs and nothing changes.
CancelLifecycle ==
    /\ Busy
    /\ lop' = [lop EXCEPT !.status = "cancelled"]
    /\ UNCHANGED <<card_files, registered_cards, live, next_id, prev_lop>>
    /\ UNCHANGED <<discovered, held, tasks, emitterVars, intentVars, unitVars, providerVars>>

InitLoader ==
    /\ EmitterAtRest
    /\ UnitsAtRest
    /\ ProviderAtRest
    /\ IntentHandlerAtRest
    /\ card_files \in SeqsUpTo(CardSources, MaxCards)
    /\ registered_cards = EmptyDict
    /\ live = {}
    /\ next_id = 1
    /\ lop = IdleOp
    /\ prev_lop = [kind |-> "none", status |-> "idle"]
    /\ discovered = [status |-> "none", cards |-> << >>]
    /\ held = [status |-> "none", cards |-> << >>, count |-> 0]
    /\ tasks = <<IdleOp, IdleOp>>

NextLoader ==
    \/ StartLoadAll
    \/ RegisterReturns
    \/ RegisterRaises
    \/ StartUnloadAll
    \/ UnregisterReturns
    \/ UnregisterRaises
    \/ CancelLifecycle

SpecLoader == InitLoader /\ [][NextLoader]_vars

\* get_registered_cards: a copy of the tracked table.
get_registered_cards == registered_cards

\* get_card_count
get_card_count == Len(registered_cards)

----------------------------------------------------------------------------
(* Properties of the RegistryCardLoader                                    *)

LoadReturned == lop.kind = "load" /\ lop.status = "returned"

UnloadReturned == lop.kind = "unload" /\ lop.status = "returned"

AllRegistered == \A i \in 1..Len(lop.calls) : lop.calls[i].out # 0

AllUnregistered == \A i \in 1..Len(lop.calls) : lop.calls[i].out = "true"

AfterLoadAll == prev_lop = [kind |-> "load", status |-> "returned"]

DiscoveredNames ==
    LET cards == discover_cards(card_files) IN { cards[i].name : i \in 1..Len(cards) }

LastRegisteredId(calls, n) ==
    LET I == { i \in 1..Len(calls) : calls[i].card.name = n /\ calls[i].out # 0 }
        last == CHOOSE i \in I : \A j \in I : j <= i
    IN  calls[last].out

C3_UnloadAllIsolatesFailures ==
    /\ lop.status # "raised"
    /\ UnloadReturned =>
        /\ [i \in 1..Len(lop.calls) |-> lop.calls[i].item] = lop.snapshot
        /\ \A i \in 1..Len(lop.calls) :
              LET item == lop.calls[i].item IN
              /\ (lop.calls[i].out = "true") <=> ~DictHas(registered_cards, item.k)
              /\ DictGet(lop.results, item.k) = (lop.calls[i].out = "true")
              /\ lop.calls[i].out # "true" => DictGet(registered_cards, item.k) = item.v

\* An unregistration raised, the next one returned true.
C3_Witness ==
    /\ UnloadReturned
    /\ Len(lop.calls) = 2
    /\ lop.calls[1].out = "raise"
    /\ lop.calls[2].out = "true"
    /\ get_card_count = 1

\* C4: re-invoking load_all after a complete or interrupted load_all, or
\* unload_all after a complete or interrupted unload_all, with every external
\* call of the re-invocation succeeding, leaves the tracked names that one
\* complete invocation leaves: the discovered names, respectively none.
C4_ReinvocationIdempotent ==
    /\ (LoadReturned /\ AllRegistered /\ prev_lop.kind = "load")
          => DictKeys(registered_cards) = DiscoveredNames
    /\ (UnloadReturned /\ AllUnregistered /\ prev_lop.kind = "unload")
          => DictKeys(registered_cards) = {}

\* A load_all cancelled after its first registration, then a complete one.
C4_Witness ==
    /\ LoadReturned /\ AllRegistered
    /\ prev_lop = [kind |-> "load", status |-> "cancelled"]
    /\ Len(lop.snapshot) = 1
    /\ Len(lop.calls) = 2
    /\ Cardinality(DiscoveredNames) = 2

----------------------------------------------------------------------------
(* Declarative feedback signals and the SignalRegistry                     *)

MaxSignalFiles == 2   \* number of signal files in feedback_signals/
MaxEmits == 2         \* emitter calls start while fewer uuids were drawn

\* A signal file: undecodable text, or a JSON object in which signal_type,
\* emission_trigger.condition and the consumer key of an intended consumer
\* may be absent.
SignalSources ==
    { [decodes |-> TRUE, name |-> "s1", has_type |-> TRUE, signal_type |-> "metric",
       has_condition |-> TRUE, condition |-> "always", execution_units |-> {"U1"},
       intended_consumers |-> << >>],
      [decodes |-> TRUE, name |-> "s1", has_type |-> TRUE, signal_type |-> "outcome",
       has_condition |-> TRUE, condition |-> "on_success", execution_units |-> {"U1"},
       intended_consumers |-> << >>],
      [decodes |-> TRUE, name |-> "s2", has_type |-> TRUE, signal_type |-> "advisor",
       has_condition |-> TRUE, condition |-> "on_failure", execution_units |-> {"U1"},
       intended_consumers |-> << [has_consumer |-> TRUE, consumer |-> "scheduler"] >>],
      [decodes |-> TRUE, name |-> "s2", has_type |-> TRUE, signal_type |-> "advisor",
       has_condition |-> FALSE, condition |-> "always", execution_units |-> {"U1"},
       intended_consumers |-> << [has_consumer |-> FALSE, consumer |-> "scheduler"] >>],
      [decodes |-> TRUE, name |-> "s3", has_type |-> TRUE, signal_type |-> "advisor",
       has_condition |-> TRUE, condition |-> "always", execution_units |-> {"U1", "U2"},
       intended_consumers |-> << >>],
      [decodes |-> TRUE, name |-> "s2", has_type |-> FALSE, signal_type |-> "metric",
       has_condition |-> TRUE, condition |-> "on_success", execution_units |-> {"U2"},
       intended_consumers |-> << >>],
      [decodes |-> FALSE, name |-> "s1", has_type |-> TRUE, signal_type |-> "metric",
       has_condition |-> TRUE, condition |-> "always", execution_units |-> {"U1"},
       intended_consumers |-> << >>] }

SignalNames == {"s1", "s2", "NoSuchSignal"}

ExecutionUnits == {"U1", "U2"}

ExceptionTexts == {"spine unavailable", ""}

\* _load_signal_from_file: json.load raises JSONDecodeError on undecodable
\* text; an absent signal_type defaults to "metric".
load_signal_from_file(src) ==
    [raised |-> ~src.decodes,
     signal |-> [name |-> src.name,
                 signal_type |-> IF src.has_type THEN src.signal_type ELSE "metric",
                 emission_trigger |-> [has_condition |-> src.has_condition,
                                       condition |-> src.condition,
                                       execution_units |-> src.execution_units],
                 intended_consumers |-> src.intended_consumers]]

EmptyRegistry == [metrics |-> EmptyDict, outcomes |-> EmptyDict, advisors |-> EmptyDict]

\* SignalRegistry.add
registry_add(reg, signal) ==
    IF signal.signal_type = "metric"
    THEN [reg EXCEPT !.metrics = DictSet(reg.metrics, signal.name, signal)]
    ELSE IF signal.signal_type = "outcome"
    THEN [reg EXCEPT !.outcomes = DictSet(reg.outcomes, signal.name, signal)]
    ELSE IF signal.signal_type = "advisor"
    THEN [reg EXCEPT !.advisors = DictSet(reg.advisors, signal.name, signal)]
    ELSE reg

\* SignalRegistry.get: the first of metrics, outcomes, advisors that has name.
registry_get(reg, name) ==
    IF DictHas(reg.metrics, name) THEN [found |-> TRUE, signal |-> DictGet(reg.metrics, name)]
    ELSE IF DictHas(reg.outcomes, name) THEN [found |-> TRUE, signal |-> DictGet(reg.outcomes, name)]
    ELSE IF DictHas(reg.advisors, name) THEN [found |-> TRUE, signal |-> DictGet(reg.advisors, name)]
    ELSE [found |-> FALSE]

DictValues(d) == [ i \in 1..Len(d) |-> d[i].v ]

\* SignalRegistry.get_all
registry_get_all(reg) ==
    DictValues(reg.metrics) \o DictValues(reg.outcomes) \o DictValues(reg.advisors)

\* FeedbackSignalRegistry.load: every file in sorted order is added, a file
\* that raises is skipped.
RECURSIVE load(_, _)
load(files, reg) ==
    IF files = << >> THEN reg
    ELSE LET r == load_signal_from_file(Head(files))
         IN  IF r.raised THEN load(Tail(files), reg)
             ELSE load(Tail(files), registry_add(reg, r.signal))

\* FeedbackSignalRegistry.get_registry: load on first use.
get_registry == IF loaded THEN signal_registry ELSE load(signal_files, signal_registry)

\* FeedbackSignalRegistry.get_signal
get_signal(name) == registry_get(get_registry, name)

\* FeedbackSignalRegistry.get_signals_for_execution_unit
get_signals_for_execution_unit(reg, eu_name) ==
    SelectSeq(registry_get_all(reg),
              LAMBDA signal : eu_name \in signal.emission_trigger.execution_units)

----------------------------------------------------------------------------
(* FeedbackSignalEmitter                                                   *)

None == [none |-> TRUE]

Str(pieces) == [none |-> FALSE, text |-> pieces]

EmissionResult(name, type, success, eid, error) ==
    [signal_name |-> name, signal_type |-> type, success |-> success,
     emission_id |-> eid, error |-> error]

EmitKinds == {"metric", "outcome", "advisor"}

UnknownText(type) ==
    IF type = "metric" THEN "Unknown metric: "
    ELSE IF type = "outcome" THEN "Unknown outcome: "
    ELSE "Unknown advisor: "

\* Mutant of emit_valid: the type of the signal is not compared.
emit_valid_any_type(reg, name, type) ==
    registry_get(reg, name).found

\* The guard of emit_metric / emit_outcome / emit_advisor: the registry has
\* a signal of that name and it is of the operation's type.
emit_valid(reg, name, type) ==
    LET signal_def == registry_get(reg, name)
    IN  signal_def.found /\ signal_def.signal.signal_type = type

\* The emitter's mutable state as one record: the call in progress and the
\* instance fields it touches.
EmitterState ==
    [op |-> eop, emissions |-> emissions, spine_calls |-> spine_calls,
     next_eid |-> next_eid, emit_calls |-> emit_calls]

\* emit_*: the early return for an unknown signal or one of another type.
emit_rejected(E, name, type) ==
    LET result == EmissionResult(name, type, FALSE, E.next_eid,
                                 Str(<<UnknownText(type), name>>))
    IN  [E EXCEPT !.next_eid = @ + 1,
                  !.op.phase = "done",
                  !.op.last = result]

\* FeedbackSignalEmitter.DOMAIN
EMITTER_DOMAIN == "data-fabric"

\* The intent ids and tenant contexts a caller passes.
EmitIntentIds == {"intent-1"}

TenantContexts == {"tenant-a"}

\* The values / execution_result mappings a caller passes: one of plain
\* measurements, one that has entries named intent_id and domain.
ValueMaps ==
    { << [k |-> "row_count", v |-> Str(<<"5">>)] >>,
      << [k |-> "intent_id", v |-> Str(<<"intent-9">>)],
         [k |-> "domain", v |-> Str(<<"elsewhere">>)] >> }

\* {**d, **values}: the entries of values are set on d in their order.
RECURSIVE dict_update(_, _)
dict_update(d, values) ==
    IF values = << >> THEN d
    ELSE dict_update(DictSet(d, Head(values).k, Head(values).v), Tail(values))

\* emit_*: payload = {"intent_id": str(intent_id), "domain": self.DOMAIN, **values}
payload(intent_id, values) ==
    dict_update(<< [k |-> "intent_id", v |-> Str(<<intent_id>>)],
                   [k |-> "domain", v |-> Str(<<EMITTER_DOMAIN>>)] >>,
                values)

\* emit_* from its entry to the await of the spine call, or to its return
\* when the signal is rejected or no spine is configured.
emit_begin(E, reg, has_spine, type, name, consumer) ==
    LET E1 == [E EXCEPT !.emit_calls = @ + 1] IN
    IF ~emit_valid(reg, name, type) THEN emit_rejected(E1, name, type)
    ELSE IF ~has_spine
    THEN LET result == EmissionResult(name, type, TRUE, E1.next_eid, None)
         IN  [E1 EXCEPT !.next_eid = @ + 1,
                        !.emissions = Append(@, result),
                        !.op.phase = "done",
                        !.op.last = result]
    ELSE [E1 EXCEPT !.next_eid = @ + 1,
                    !.spine_calls = Append(@, [signal_type |-> type, name |-> name,
                                               consumer |-> consumer,
                                               value |-> payload(E1.op.intent_id, E1.op.values),
                                               tenant_context |-> E1.op.tenant_context]),
                    !.op.phase = "awaiting",
                    !.op.pending = [name |-> name, type |-> type, eid |-> E1.next_eid]]

\* Mutant of emit_sink_raised: the text of the exception is dropped.
emit_sink_raised_no_text(E, text) ==
    LET p == E.op.pending
        result == EmissionResult(p.name, p.type, FALSE, p.eid, None)
    IN  [E EXCEPT !.emissions = Append(@, result),
                  !.op.phase = "done",
                  !.op.last = result,
                  !.op.sink = [out |-> "raise", text |-> text]]

\* emit_*: the except Exception handler around the spine call.
emit_sink_raised(E, text) ==
    LET p == E.op.pending
        result == EmissionResult(p.name, p.type, FALSE, p.eid, Str(<<text>>))
    IN  [E EXCEPT !.emissions = Append(@, result),
                  !.op.phase = "done",
                  !.op.last = result,
                  !.op.sink = [out |-> "raise", text |-> text]]

\* Mutant of emit_sink_returned: the result is put at the head of the log.
emit_sink_returned_prepends(E, success) ==
    LET p == E.op.pending
        result == EmissionResult(p.name, p.type, success, p.eid, None)
    IN  [E EXCEPT !.emissions = <<result>> \o @,
                  !.op.phase = "done",
                  !.op.last = result,
                  !.op.sink = [out |-> IF success THEN "true" ELSE "false", text |-> ""]]

\* emit_*: the spine call returned success.
emit_sink_returned(E, success) ==
    LET p == E.op.pending
        result == EmissionResult(p.name, p.type, success, p.eid, None)
    IN  [E EXCEPT !.emissions = Append(@, result),
                  !.op.phase = "done",
                  !.op.last = result,
                  !.op.sink = [out |-> IF success THEN "true" ELSE "false", text |-> ""]]

\* The return of a directly called emit_*.
emit_return(E) ==
    IF E.op.phase = "done"
    THEN [E EXCEPT !.op.status = "returned", !.op.ret = E.op.last]
    ELSE [E EXCEPT !.op.status = "awaiting"]

\* Mutant of condition_skips: on_failure signals are emitted on success too.
condition_skips_only_on_success(condition, success) ==
    condition = "on_success" /\ ~success

\* emit_for_execution_unit: the two continue statements of the condition check.
condition_skips(condition, success) ==
    \/ condition = "on_success" /\ ~success
    \/ condition = "on_failure" /\ success

\* trigger.get("condition", "always")
trigger_condition(trigger) ==
    IF trigger.has_condition THEN trigger.condition ELSE "always"

\* emit_for_execution_unit: the loop over the signals of the unit, from the
\* head of todo up to the next await, the return, or an exception that
\* leaves the call (KeyError of consumers[0]["consumer"]).
RECURSIVE for_unit_loop(_, _, _)
for_unit_loop(E, reg, has_spine) ==
    IF E.op.todo = << >> THEN [E EXCEPT !.op.status = "returned"]
    ELSE
    LET signal_def == Head(E.op.todo)
        rest == [E EXCEPT !.op.todo = Tail(@)]
        consumers == signal_def.intended_consumers
    IN
    IF condition_skips(trigger_condition(signal_def.emission_trigger), E.op.success)
    THEN for_unit_loop(rest, reg, has_spine)
    ELSE IF signal_def.signal_type \notin EmitKinds
    THEN for_unit_loop(rest, reg, has_spine)
    ELSE IF /\ signal_def.signal_type = "advisor"
            /\ consumers # << >>
            /\ ~consumers[1].has_consumer
    THEN [E EXCEPT !.op.status = "raised"]
    ELSE
    LET consumer == IF signal_def.signal_type # "advisor" THEN ""
                    ELSE IF consumers # << >> THEN consumers[1].consumer
                    ELSE "unknown"
        E2 == emit_begin(rest, reg, has_spine, signal_def.signal_type,
                         signal_def.name, consumer)
    IN  IF E2.op.phase = "done"
        THEN for_unit_loop([E2 EXCEPT !.op.results = Append(@, E2.op.last)], reg, has_spine)
        ELSE [E2 EXCEPT !.op.status = "awaiting"]

\* The call in progress goes on after its spine call has completed.
emit_resume(E, reg, has_spine) ==
    IF E.op.kind = "for_unit"
    THEN for_unit_loop([E EXCEPT !.op.results = Append(@, E.op.last)], reg, has_spine)
    ELSE emit_return(E)

NewOp(kind, name, unit, success) ==
    [kind |-> kind, status |-> "running", phase |-> "none",
     name |-> name, unit |-> unit, success |-> success,
     intent_id |-> "", tenant_context |-> "", values |-> << >>,
     todo |-> << >>, results |-> << >>,
     pending |-> [name |-> "", type |-> "", eid |-> 0],
     last |-> EmissionResult("", "", FALSE, 0, None),
     ret |-> EmissionResult("", "", FALSE, 0, None),
     sink |-> [out |-> "none", text |-> ""],
     spine_before |-> Len(spine_calls),
     emissions_before |-> Len(emissions)]

EmitterBusy == eop.status = "awaiting"

Commit(E) ==
    /\ eop' = E.op
    /\ emissions' = E.emissions
    /\ spine_calls' = E.spine_calls
    /\ next_eid' = E.next_eid
    /\ emit_calls' = E.emit_calls

\* The mappings the next call may pass: a caller reports the same mapping
\* in every call of one behaviour.
CallerValues == IF eop.status = "idle" THEN ValueMaps ELSE {eop.values}

EmitDirect(type, name, consumer) ==
    /\ ~EmitterBusy
    /\ next_eid <= MaxEmits
    /\ signal_registry' = get_registry
    /\ loaded' = TRUE
    /\ \E intent_id \in EmitIntentIds, tenant_context \in TenantContexts, values \in CallerValues :
        Commit(emit_return(emit_begin(
            [EmitterState EXCEPT !.op =
                [NewOp(type, name, "", TRUE) EXCEPT
                    !.intent_id = intent_id,
                    !.tenant_context = tenant_context,
                    !.values = values]],
            get_registry, spine, type, name, consumer)))
    /\ UNCHANGED <<signal_files, spine>>
    /\ UNCHANGED <<loaderVars, intentVars, unitVars, providerVars>>

\* FeedbackSignalEmitter.emit_metric
EmitMetric == \E name \in SignalNames : EmitDirect("metric", name, "")

\* FeedbackSignalEmitter.emit_outcome
EmitOutcome == \E name \in SignalNames : EmitDirect("outcome", name, "")

\* FeedbackSignalEmitter.emit_advisor
EmitAdvisor == \E name \in SignalNames : EmitDirect("advisor", name, "scheduler")

\* FeedbackSignalEmitter.emit_for_execution_unit
EmitForExecutionUnit ==
    /\ ~EmitterBusy
    /\ next_eid <= MaxEmits
    /\ signal_registry' = get_registry
    /\ loaded' = TRUE
    /\ \E unit \in ExecutionUnits, success \in BOOLEAN,
          intent_id \in EmitIntentIds, tenant_context \in TenantContexts,
          execution_result \in CallerValues :
        Commit(for_unit_loop(
            [EmitterState EXCEPT !.op =
                [NewOp("for_unit", "", unit, success) EXCEPT
                    !.intent_id = intent_id,
                    !.tenant_context = tenant_context,
                    !.values = execution_result,
                    !.todo = get_signals_for_execution_unit(get_registry, unit)]],
            get_registry, spine))
    /\ UNCHANGED <<signal_files, spine>>
    /\ UNCHANGED <<loaderVars, intentVars, unitVars, providerVars>>

\* The awaited spine call returns true or false.
SpineReturns ==
    /\ EmitterBusy
    /\ \E success \in BOOLEAN :
        Commit(emit_resume(emit_sink_returned(EmitterState, success), signal_registry, spine))
    /\ UNCHANGED <<signal_files, signal_registry, loaded, spine>>
    /\ UNCHANGED <<loaderVars, intentVars, unitVars, providerVars>>

\* The awaited spine call raises an Exception.
SpineRaises ==
    /\ EmitterBusy
    /\ \E text \in ExceptionTexts :
        Commit(emit_resume(emit_sink_raised(EmitterState, text), signal_registry, spine))
    /\ UNCHANGED <<signal_files, signal_registry, loaded, spine>>
    /\ UNCHANGED <<loaderVars, intentVars, unitVars, providerVars>>

\* FeedbackSignalEmitter.clear_emissions
ClearEmissions ==
    /\ ~EmitterBusy
    /\ emissions # << >>
    /\ emissions' = << >>
    /\ emit_calls' = 0
    /\ UNCHANGED <<signal_files, signal_registry, loaded, spine, spine_calls, next_eid, eop>>
    /\ UNCHANGED <<loaderVars, intentVars, unitVars, providerVars>>

\* FeedbackSignalRegistry.load called by the owner of the registry.
LoadSignals ==
    /\ ~EmitterBusy
    /\ signal_registry' = load(signal_files, signal_registry)
    /\ loaded' = TRUE
    /\ UNCHANGED <<signal_files, spine, emissions, spine_calls, next_eid, emit_calls, eop>>
    /\ UNCHANGED <<loaderVars, intentVars, unitVars, providerVars>>

\* The loader as constructed, with no card files.
LoaderAtRest ==
    /\ card_files = << >>
    /\ registered_cards = EmptyDict
    /\ live = {}
    /\ next_id = 1
    /\ lop = IdleOp
    /\ prev_lop = [kind |-> "none", status |-> "idle"]
    /\ discovered = [status |-> "none", cards |-> << >>]
    /\ held = [status |-> "none", cards |-> << >>, count |-> 0]
    /\ tasks = <<IdleOp, IdleOp>>

InitEmitter ==
    /\ LoaderAtRest
    /\ UnitsAtRest
    /\ ProviderAtRest
    /\ IntentHandlerAtRest
    /\ signal_files \in SeqsUpTo(SignalSources, MaxSignalFiles)
    /\ signal_registry = EmptyRegistry
    /\ loaded = FALSE
    /\ spine \in BOOLEAN
    /\ emissions = << >>
    /\ spine_calls = << >>
    /\ next_eid = 1
    /\ emit_calls = 0
    /\ eop = [NewOp("none", "", "", TRUE) EXCEPT !.status = "idle"]

NextEmitter ==
    \/ EmitMetric
    \/ EmitOutcome
    \/ EmitAdvisor
    \/ EmitForExecutionUnit
    \/ SpineReturns
    \/ SpineRaises
    \/ ClearEmissions
    \/ LoadSignals

SpecEmitter == InitEmitter /\ [][NextEmitter]_vars

\* FeedbackSignalEmitter.get_emissions: a copy of the audit log.
get_emissions == emissions

\* FeedbackSignalEmitter.get_emission_count()['total']
get_emission_count_total == Len(emissions)

----------------------------------------------------------------------------
(* Properties of the FeedbackSignalEmitter                                 *)

DirectEmit == eop.kind \in EmitKinds

\* The registry has no signal of that name, or the signal it returns for the
\* name is of another type than the operation.
NotOfType(name, type) ==
    IF type = "metric" THEN ~DictHas(signal_registry.metrics, name)
    ELSE IF type = "outcome"
    THEN DictHas(signal_registry.metrics, name) \/ ~DictHas(signal_registry.outcomes, name)
    ELSE \/ DictHas(signal_registry.metrics, name)
         \/ DictHas(signal_registry.outcomes, name)
         \/ ~DictHas(signal_registry.advisors, name)

\* C5: emit_metric, emit_outcome and emit_advisor called with a name that is
\* not in the signal registry, or that names a signal of another type, return
\* an EmissionResult with success=false and error set, and make no call to
\* the observability spine.
C5_UnknownSignalRejected ==
    (DirectEmit /\ NotOfType(eop.name, eop.kind)) =>
        /\ eop.status = "returned"
        /\ eop.ret.signal_name = eop.name
        /\ eop.ret.success = FALSE
        /\ eop.ret.error # None
        /\ Len(spine_calls) = eop.spine_before

\* emit_outcome with the name of a metric, a spine being configured.
C5_Witness ==
    /\ eop.kind = "outcome" /\ eop.status = "returned"
    /\ spine
    /\ DictHas(signal_registry.metrics, eop.name)
    /\ eop.ret.success = FALSE
    /\ eop.ret.error = Str(<<"Unknown outcome: ", eop.name>>)
    /\ spine_calls = << >>

\* C6: every call to emit_metric, emit_outcome or emit_advisor appends
\* exactly one EmissionResult to the audit log, whether it ends in success or
\* in failure (validation failure, spine exception, spine rejection): after n
\* calls without clear_emissions, get_emission_count()['total'] = n.
C6_EveryCallRecorded ==
    ~EmitterBusy => get_emission_count_total = emit_calls

\* C7: when the observability spine raises during emit_metric, emit_outcome
\* or emit_advisor, the call does not raise; it returns an EmissionResult
\* with success=false whose error is the text of the exception.
C7_SinkExceptionBecomesFailedResult ==
    DirectEmit =>
        /\ eop.status # "raised"
        /\ (eop.status = "returned" /\ eop.sink.out = "raise") =>
              /\ eop.ret.success = FALSE
              /\ eop.ret.error = Str(<<eop.sink.text>>)
              /\ eop.ret.signal_name = eop.name
              /\ eop.ret.signal_type = eop.kind

\* emit_metric returned after the spine raised "spine unavailable".
C7_Witness ==
    /\ eop.kind = "metric" /\ eop.status = "returned"
    /\ eop.sink = [out |-> "raise", text |-> "spine unavailable"]
    /\ eop.ret.error = Str(<<"spine unavailable">>)
    /\ eop.ret.success = FALSE

\* The signals of the registry that the claim lets a completion event of
\* unit with the given success emit, in the order of get_all.
Qualifying(unit, success) ==
    SelectSeq(DictValues(signal_registry.metrics) \o DictValues(signal_registry.outcomes)
                  \o DictValues(signal_registry.advisors),
              LAMBDA sd :
                  /\ unit \in sd.emission_trigger.execution_units
                  /\ \/ ~sd.emission_trigger.has_condition
                     \/ sd.emission_trigger.condition = "always"
                     \/ sd.emission_trigger.condition = "on_success" /\ success
                     \/ sd.emission_trigger.condition = "on_failure" /\ ~success)

NameAndType(defs) == [ i \in 1..Len(defs) |-> <<defs[i].name, defs[i].signal_type>> ]

ResultNameAndType(results) ==
    [ i \in 1..Len(results) |-> <<results[i].signal_name, results[i].signal_type>> ]

IsPrefix(a, b) == Len(a) <= Len(b) /\ \A i \in 1..Len(a) : a[i] = b[i]

\* C8: emit_for_execution_unit(unit, ..., success) returns results for
\* exactly the signals whose emission_trigger.execution_units contains unit
\* and whose condition is 'always', or 'on_success' with success, or
\* 'on_failure' without; no other signal yields a result or a spine call.
C8_ExactlyQualifyingSignalsEmitted ==
    eop.kind = "for_unit" =>
        LET Q == NameAndType(Qualifying(eop.unit, eop.success)) IN
        /\ IsPrefix(ResultNameAndType(eop.results), Q)
        /\ eop.status = "returned" => ResultNameAndType(eop.results) = Q
        /\ \A i \in (eop.spine_before + 1)..Len(spine_calls) :
              \E j \in 1..Len(Q) : Q[j] = <<spine_calls[i].name, spine_calls[i].signal_type>>

\* A successful completion of U1 while the registry holds an on_success and
\* an on_failure signal of U1: one result, for the on_success signal.
C8_Witness ==
    /\ eop.kind = "for_unit" /\ eop.status = "returned"
    /\ eop.unit = "U1" /\ eop.success
    /\ Len(get_signals_for_execution_unit(signal_registry, "U1")) = 2
    /\ Len(eop.results) = 1
    /\ eop.results[1].signal_name = "s1"
    /\ \E i \in 1..Len(signal_registry.advisors) :
          signal_registry.advisors[i].v.emission_trigger.condition = "on_failure"

\* C9: within emit_for_execution_unit a failure while handling one qualifying
\* signal does not stop the remaining ones: every qualifying signal gets its
\* own EmissionResult in the returned list, and the call never raises.
C9_ForUnitNeverRaises ==
    eop.kind = "for_unit" =>
        /\ eop.status # "raised"
        /\ eop.status # "awaiting" =>
              Len(eop.results) = Len(Qualifying(eop.unit, eop.success))

----------------------------------------------------------------------------
(* DataFabricIntentHandler                                                 *)

MaxSubmissions == 2   \* handle_intent starts while the engine got fewer calls

\* The static table of intent_handler.py, a dict in source order; an
\* input_mapping is the set of its (unit input field, intent parameter path)
\* items.
INTENT_TO_EXECUTION_UNITS ==
    <<
      [k |-> "RegisterDataAsset",
       v |-> << [name |-> "DataAssetRegistrar", capability_type |-> "data-registration",
               input_mapping |-> {<<"asset_declaration", "asset_declaration">>}] >>],
      [k |-> "IngestData",
       v |-> << [name |-> "DataExtractor", capability_type |-> "data-extraction",
               input_mapping |-> {<<"source_connection_ref", "extraction_input.source_connection_ref">>, <<"source_query_or_path", "extraction_input.source_query_or_path">>}],
             [name |-> "DataWriter", capability_type |-> "data-writing",
               input_mapping |-> {<<"staging_ref", "write_input.staging_ref">>, <<"target_dataset_ref", "write_input.target_dataset_ref">>}],
             [name |-> "LineageEdgeWriter", capability_type |-> "lineage-recording",
               input_mapping |-> {<<"source_asset_ref", "edge_input.source_asset_ref">>, <<"target_asset_ref", "edge_input.target_asset_ref">>}] >>],
      [k |-> "TransformData",
       v |-> << [name |-> "TransformExecutor", capability_type |-> "data-transformation",
               input_mapping |-> {<<"input_data_ref", "transform_input.input_data_ref">>, <<"transformation_definition", "transform_input.transformation_definition">>}],
             [name |-> "DataWriter", capability_type |-> "data-writing",
               input_mapping |-> {<<"staging_ref", "write_input.staging_ref">>, <<"target_dataset_ref", "write_input.target_dataset_ref">>}],
             [name |-> "LineageEdgeWriter", capability_type |-> "lineage-recording",
               input_mapping |-> {<<"source_asset_ref", "edge_input.source_asset_ref">>, <<"target_asset_ref", "edge_input.target_asset_ref">>}] >>],
      [k |-> "MaterializeFeatures",
       v |-> << [name |-> "FeatureComputer", capability_type |-> "feature-computation",
               input_mapping |-> {<<"source_data_ref", "compute_input.source_data_ref">>, <<"feature_definition_ref", "compute_input.feature_definition_ref">>}],
             [name |-> "FeatureStoreWriter", capability_type |-> "feature-storage",
               input_mapping |-> {<<"staging_ref", "write_input.staging_ref">>, <<"feature_set_ref", "write_input.feature_set_ref">>}] >>],
      [k |-> "RetrieveFeatures",
       v |-> << [name |-> "FeatureRetriever", capability_type |-> "feature-retrieval",
               input_mapping |-> {<<"feature_set_ref", "retrieve_input.feature_set_ref">>, <<"entity_keys", "retrieve_input.entity_keys">>}] >>],
      [k |-> "ProfileData",
       v |-> << [name |-> "DataProfiler", capability_type |-> "data-profiling",
               input_mapping |-> {<<"dataset_ref", "profile_input.dataset_ref">>, <<"sample_size", "profile_input.sample_size">>}] >>],
      [k |-> "CommitDataVersion",
       v |-> << [name |-> "DataCommitter", capability_type |-> "data-versioning",
               input_mapping |-> {<<"dataset_ref", "commit_input.dataset_ref">>, <<"commit_message", "commit_input.commit_message">>}] >>],
      [k |-> "BranchDataset",
       v |-> << [name |-> "BranchCreator", capability_type |-> "data-branching",
               input_mapping |-> {<<"dataset_ref", "branch_input.dataset_ref">>, <<"source_commit_ref", "branch_input.source_commit_ref">>}] >>],
      [k |-> "MergeDataBranches",
       v |-> << [name |-> "MergeComputer", capability_type |-> "data-merging",
               input_mapping |-> {<<"source_commit_ref", "merge_input.source_commit_ref">>, <<"target_commit_ref", "merge_input.target_commit_ref">>}],
             [name |-> "DataCommitter", capability_type |-> "data-versioning",
               input_mapping |-> {<<"dataset_ref", "commit_input.dataset_ref">>, <<"commit_message", "commit_input.commit_message">>}] >>],
      [k |-> "CreateLabelTask",
       v |-> << [name |-> "LabelTaskCreator", capability_type |-> "labeling-task",
               input_mapping |-> {<<"source_dataset_ref", "task_input.source_dataset_ref">>, <<"label_schema_ref", "task_input.label_schema_ref">>}] >>],
      [k |-> "TestConnection",
       v |-> << [name |-> "ConnectionProbe", capability_type |-> "connection-testing",
               input_mapping |-> {<<"connection_ref", "probe_input.connection_ref">>, <<"timeout_seconds", "probe_input.timeout_seconds">>}] >>],
      [k |-> "DiscoverSchema",
       v |-> << [name |-> "SchemaIntrospector", capability_type |-> "schema-discovery",
               input_mapping |-> {<<"connection_ref", "introspection_input.connection_ref">>, <<"source_path", "introspection_input.source_path">>}] >>],
      [k |-> "ReplicateData",
       v |-> << [name |-> "DataReplicator", capability_type |-> "data-replication",
               input_mapping |-> {<<"source_location_ref", "replication_input.source_location_ref">>, <<"target_location_ref", "replication_input.target_location_ref">>}] >>],
      [k |-> "QueryLocality",
       v |-> << [name |-> "LocalitySignalGenerator", capability_type |-> "locality-signaling",
               input_mapping |-> {<<"asset_ref", "asset_ref">>}] >>],
      [k |-> "ValidateSchema",
       v |-> << [name |-> "SchemaValidator", capability_type |-> "schema-validation",
               input_mapping |-> {<<"dataset_ref", "validation_input.dataset_ref">>, <<"expected_schema_ref", "validation_input.expected_schema_ref">>}] >>]
    >>

DOMAIN_TAG == "data-fabric"

\* DataFabricIntentHandler.SUPPORTED_INTENTS
SUPPORTED_INTENTS == DictKeys(INTENT_TO_EXECUTION_UNITS)

IntentTypes == SUPPORTED_INTENTS \cup {"UnknownIntent", ""}

IntentIds == {"intent-1", "intent-2"}

\* Mutant of is_supported_intent: every non-empty intent type is accepted.
is_supported_intent_truthy(intent_type) == intent_type # ""

\* Mutant of is_supported_intent: every intent type is accepted.
is_supported_intent_any(intent_type) == intent_type = intent_type

\* DataFabricIntentHandler.is_supported_intent
is_supported_intent(intent_type) == intent_type \in SUPPORTED_INTENTS

\* DataFabricIntentHandler.get_execution_units_for_intent: dict.get, an
\* empty list standing for None (both are falsy in handle_intent).
get_execution_units_for_intent(intent_type) ==
    IF DictHas(intent_table, intent_type)
    THEN DictGet(intent_table, intent_type)
    ELSE << >>

\* Mutant of build_eu_specs: the specs are built in reverse order.
build_eu_specs_reversed(execution_units) ==
    [ i \in 1..Len(execution_units) |->
        LET eu == execution_units[Len(execution_units) + 1 - i] IN
        [name |-> eu.name,
         capability_type |-> eu.capability_type,
         input_mapping |-> eu.input_mapping,
         domain |-> DOMAIN_TAG] ]

\* handle_intent: the execution unit specs built for MCOP.
build_eu_specs(execution_units) ==
    [ i \in 1..Len(execution_units) |->
        [name |-> execution_units[i].name,
         capability_type |-> execution_units[i].capability_type,
         input_mapping |-> execution_units[i].input_mapping,
         domain |-> DOMAIN_TAG] ]

Failure(error) == [success |-> FALSE, error |-> error, domain |-> DOMAIN_TAG]

\* handle_intent: the result returned after the submission step.
handle_intent_success(op) ==
    [op EXCEPT !.status = "returned",
               !.ret = [success |-> TRUE, intent_id |-> op.intent_id,
                        intent_type |-> op.intent_type, domain |-> DOMAIN_TAG,
                        execution_units |-> op.eu_specs,
                        unit_count |-> Len(op.eu_specs)]]

\* handle_intent from its entry to the await of decompose_intent, or to its
\* return when the intent is not decomposed or no engine is configured.
handle_intent_begin(intent_id, intent_type, has_engine, calls_before) ==
    LET op == [status |-> "running", intent_id |-> intent_id, intent_type |-> intent_type,
               eu_specs |-> << >>, ret |-> Failure(None),
               engine_before |-> calls_before, engine_out |-> "none",
               engine_text |-> "", supported |-> is_supported_intent(intent_type)]
        execution_units == get_execution_units_for_intent(intent_type)
    IN
    IF ~op.supported
    THEN [op EXCEPT !.status = "returned",
                    !.ret = Failure(Str(<<"Unsupported intent type: ", intent_type>>))]
    ELSE IF execution_units = << >>
    THEN [op EXCEPT !.status = "returned",
                    !.ret = Failure(Str(<<"No execution units mapped for intent: ", intent_type>>))]
    ELSE IF has_engine
    THEN [op EXCEPT !.status = "awaiting", !.eu_specs = build_eu_specs(execution_units)]
    ELSE handle_intent_success([op EXCEPT !.eu_specs = build_eu_specs(execution_units)])

\* Mutant of handle_intent_submit_failed: the message of the exception is
\* left out of the error.
handle_intent_submit_failed_generic(op, text) ==
    [op EXCEPT !.status = "returned",
               !.engine_out = "raise",
               !.engine_text = text,
               !.ret = Failure(Str(<<"Failed to submit decomposition">>))]

\* handle_intent: the except Exception handler around decompose_intent.
handle_intent_submit_failed(op, text) ==
    [op EXCEPT !.status = "returned",
               !.engine_out = "raise",
               !.engine_text = text,
               !.ret = Failure(Str(<<"Failed to submit decomposition: ", text>>))]

UnitNames(units) == [ i \in 1..Len(units) |-> units[i].name ]

\* The unit names of the first successful decomposition of a behaviour.
Remember(op) ==
    IF ~first_decomposition.seen /\ op.status = "returned" /\ op.ret.success
    THEN [seen |-> TRUE, intent_type |-> op.intent_type,
          names |-> UnitNames(op.ret.execution_units)]
    ELSE first_decomposition

\* DataFabricIntentHandler.handle_intent
HandleIntent ==
    /\ iop.status # "awaiting"
    /\ Len(engine_calls) < MaxSubmissions
    /\ \E intent_id \in IntentIds, intent_type \in IntentTypes :
        LET op == handle_intent_begin(intent_id, intent_type, intent_engine, Len(engine_calls))
        IN  /\ iop' = op
            /\ first_decomposition' = Remember(op)
            /\ engine_calls' = IF op.status = "awaiting"
                               THEN Append(engine_calls, [intent_id |-> intent_id,
                                                          execution_units |-> op.eu_specs])
                               ELSE engine_calls
    /\ UNCHANGED <<intent_engine, intent_table>>
    /\ UNCHANGED <<loaderVars, emitterVars, unitVars, providerVars>>

\* The awaited decompose_intent returns; its value is not looked at.
DecomposeReturns ==
    /\ iop.status = "awaiting"
    /\ \E accepted \in BOOLEAN :
        LET op == handle_intent_success(
                      [iop EXCEPT !.engine_out = IF accepted THEN "true" ELSE "false"])
        IN  /\ iop' = op
            /\ first_decomposition' = Remember(op)
    /\ UNCHANGED <<intent_engine, engine_calls, intent_table>>
    /\ UNCHANGED <<loaderVars, emitterVars, unitVars, providerVars>>

\* The awaited decompose_intent raises an Exception.
DecomposeRaises ==
    /\ iop.status = "awaiting"
    /\ \E text \in ExceptionTexts :
        iop' = handle_intent_submit_failed(iop, text)
    /\ UNCHANGED <<intent_engine, engine_calls, intent_table, first_decomposition>>
    /\ UNCHANGED <<loaderVars, emitterVars, unitVars, providerVars>>

InitIntent ==
    /\ LoaderAtRest
    /\ UnitsAtRest
    /\ ProviderAtRest
    /\ EmitterAtRest
    /\ intent_engine \in BOOLEAN
    /\ engine_calls = << >>
    /\ iop = [status |-> "idle"]
    /\ intent_table = INTENT_TO_EXECUTION_UNITS
    /\ first_decomposition = [seen |-> FALSE]

NextIntent ==
    \/ HandleIntent
    \/ DecomposeReturns
    \/ DecomposeRaises

SpecIntent == InitIntent /\ [][NextIntent]_vars

----------------------------------------------------------------------------
(* Properties of the DataFabricIntentHandler                               *)

HandledUnsupported ==
    /\ iop.status # "idle"
    /\ \A i \in 1..Len(INTENT_TO_EXECUTION_UNITS) :
          INTENT_TO_EXECUTION_UNITS[i].k # iop.intent_type

\* C10 (as stated): handle_intent with an intent type that is not a key of
\* the static mapping returns {success: false, error: "UNSUPPORTED_INTENT"}
\* as a value, never raises, and makes no call to the submission collaborator.
C10_UnsupportedIntentErrorCode ==
    HandledUnsupported =>
        /\ iop.status = "returned"
        /\ iop.ret.success = FALSE
        /\ iop.ret.error = Str(<<"UNSUPPORTED_INTENT">>)
        /\ Len(engine_calls) = iop.engine_before

\* C10 (amended): handle_intent with an intent type that is not a key of the
\* static mapping returns, as a value, the structured failure {success:
\* false, error: "Unsupported intent type: <intent_type>", domain:
\* "data-fabric"}; it never raises and makes no call to the submission
\* collaborator.
C10_UnsupportedIntentRejected ==
    HandledUnsupported =>
        /\ iop.status = "returned"
        /\ iop.ret = [success |-> FALSE,
                      error |-> Str(<<"Unsupported intent type: ", iop.intent_type>>),
                      domain |-> "data-fabric"]
        /\ Len(engine_calls) = iop.engine_before

\* An unknown intent type handled while an intent engine is configured.
C10_Witness ==
    /\ intent_engine
    /\ iop.status = "returned"
    /\ iop.intent_type = "UnknownIntent"
    /\ iop.ret.success = FALSE
    /\ engine_calls = << >>

\* C11: when an intent engine is configured and decompose_intent raises,
\* handle_intent does not raise and returns success=false with an error that
\* carries the message of the exception; when no engine is configured,
\* handle_intent of a supported intent makes no external call and returns
\* success=true.
C11_SubmissionFailureReturned ==
    iop.status # "idle" =>
        /\ iop.status # "raised"
        /\ (iop.status = "returned" /\ iop.engine_out = "raise") =>
              /\ iop.ret.success = FALSE
              /\ iop.ret.error # None
              /\ \E i \in 1..Len(iop.ret.error.text) : iop.ret.error.text[i] = iop.engine_text
        /\ (~intent_engine /\ ~HandledUnsupported) =>
              /\ iop.status = "returned"
              /\ iop.ret.success = TRUE
              /\ engine_calls = << >>

\* decompose_intent raised "spine unavailable" for a supported intent.
C11_Witness ==
    /\ intent_engine
    /\ iop.status = "returned"
    /\ iop.engine_out = "raise"
    /\ iop.engine_text = "spine unavailable"
    /\ iop.intent_type = "IngestData"
    /\ iop.ret.success = FALSE
    /\ Len(engine_calls) = 1

TableNames(intent_type) ==
    LET i == CHOOSE j \in 1..Len(INTENT_TO_EXECUTION_UNITS) :
                 INTENT_TO_EXECUTION_UNITS[j].k = intent_type
        refs == INTENT_TO_EXECUTION_UNITS[i].v
    IN  [ n \in 1..Len(refs) |-> refs[n].name ]

Decomposed == iop.status = "returned" /\ iop.ret.success

\* C12: for every supported intent type handle_intent returns
\* execution_units whose names are the table's sequence for that intent, in
\* table order (IngestData gives DataExtractor, DataWriter,
\* LineageEdgeWriter), with unit_count the length of the sequence; two calls
\* with the same intent type, whatever happens in between, return the same
\* ordered unit names; the static table is never changed by a call.
C12_DecompositionDeterministic ==
    /\ intent_table = INTENT_TO_EXECUTION_UNITS
    /\ Decomposed =>
        LET names == [ i \in 1..Len(iop.ret.execution_units) |->
                          iop.ret.execution_units[i].name ] IN
        /\ names = TableNames(iop.intent_type)
        /\ iop.ret.unit_count = Len(TableNames(iop.intent_type))
        /\ iop.intent_type = "IngestData" =>
              names = <<"DataExtractor", "DataWriter", "LineageEdgeWriter">>
        /\ (first_decomposition.seen /\ first_decomposition.intent_type = iop.intent_type) =>
              names = first_decomposition.names

\* IngestData decomposed a second time, after an engine call was made for
\* the first decomposition.
C12_Witness ==
    /\ Decomposed
    /\ iop.intent_type = "IngestData"
    /\ iop.ret.unit_count = 3
    /\ first_decomposition.seen
    /\ first_decomposition.intent_type = "IngestData"
    /\ Len(engine_calls) = 2

ADRIntents ==
    {"RegisterDataAsset", "IngestData", "TransformData", "MaterializeFeatures",
     "RetrieveFeatures", "ProfileData", "CommitDataVersion", "BranchDataset",
     "MergeDataBranches", "CreateLabelTask", "TestConnection", "DiscoverSchema",
     "ReplicateData", "QueryLocality", "ValidateSchema"}

TableKeys == { intent_table[i].k : i \in 1..Len(intent_table) }

UnsupportedFailure(t) ==
    [success |-> FALSE, error |-> Str(<<"Unsupported intent type: ", t>>),
     domain |-> "data-fabric"]

\* C13: is_supported_intent(t) is true exactly when t is a key of the static
\* intent mapping, for every t including unknown strings; the mapping holds
\* exactly the 15 ADR intents; handle_intent(t) returns the unsupported-intent
\* failure exactly when is_supported_intent(t) is false.
C13_SupportedIffMapped ==
    /\ TableKeys = ADRIntents
    /\ Cardinality(TableKeys) = 15
    /\ Len(intent_table) = 15
    /\ iop.status # "idle" =>
        /\ iop.supported <=> iop.intent_type \in TableKeys
        /\ iop.status = "returned" =>
              (iop.ret = UnsupportedFailure(iop.intent_type) <=> ~iop.supported)

\* The empty string was handled as an unsupported intent.
C13_Witness ==
    /\ iop.status = "returned"
    /\ iop.intent_type = ""
    /\ ~iop.supported
    /\ iop.ret = UnsupportedFailure("")

----------------------------------------------------------------------------
(* Declarative sources with missing fields or undecodable text             *)

\* RegistryCardLoader.discover_cards called directly.
DiscoverCards ==
    /\ ~Busy
    /\ discovered' = [status |-> "returned", cards |-> discover_cards(card_files)]
    /\ UNCHANGED <<card_files, registered_cards, live, next_id, lop, prev_lop, held, tasks>>
    /\ UNCHANGED <<emitterVars, intentVars, unitVars, providerVars>>

\* A loader and a signal registry as constructed, over any card files and
\* any signal files.
InitSources ==
    /\ IntentHandlerAtRest
    /\ UnitsAtRest
    /\ ProviderAtRest
    /\ card_files \in SeqsUpTo(CardSources, MaxCards)
    /\ registered_cards = EmptyDict
    /\ live = {}
    /\ next_id = 1
    /\ lop = IdleOp
    /\ prev_lop = [kind |-> "none", status |-> "idle"]
    /\ discovered = [status |-> "none", cards |-> << >>]
    /\ held = [status |-> "none", cards |-> << >>, count |-> 0]
    /\ tasks = <<IdleOp, IdleOp>>
    /\ signal_files \in SeqsUpTo(SignalSources, MaxSignalFiles)
    /\ signal_registry = EmptyRegistry
    /\ loaded = FALSE
    /\ spine = FALSE
    /\ emissions = << >>
    /\ spine_calls = << >>
    /\ next_eid = 1
    /\ emit_calls = 0
    /\ eop = [NewOp("none", "", "", TRUE) EXCEPT !.status = "idle"]

NextSources ==
    \/ DiscoverCards
    \/ LoadSignals

SpecSources == InitSources /\ [][NextSources]_vars

\* A card source that decodes and has metadata.name and capability.type.
CompleteSource(src) == src.decodes /\ src.has_name /\ src.has_type

\* C14 (as stated): a capability source without a required field is not
\* among the discovered cards and is never registered by load_all, while its
\* well-formed siblings are: load_all makes one registration call per
\* complete source, each for a card with a name and a capability type.
C14_IncompleteCardExcluded ==
    LoadReturned =>
        /\ Len(lop.calls) = Len(SelectSeq(card_files, CompleteSource))
        /\ \A i \in 1..Len(lop.calls) :
              /\ lop.calls[i].card.name # ""
              /\ lop.calls[i].card.capability_type # ""

DecodableCards == SelectSeq(card_files, LAMBDA src : src.decodes)

Bucket(signal_type) ==
    IF signal_type = "metric" THEN signal_registry.metrics
    ELSE IF signal_type = "outcome" THEN signal_registry.outcomes
    ELSE signal_registry.advisors

\* The signal of the last decodable file with the name and type of file i.
LastLike(i) ==
    LET sg == load_signal_from_file(signal_files[i]).signal
        like == { j \in 1..Len(signal_files) :
                    /\ signal_files[j].decodes
                    /\ load_signal_from_file(signal_files[j]).signal.name = sg.name
                    /\ load_signal_from_file(signal_files[j]).signal.signal_type = sg.signal_type }
        last == CHOOSE j \in like : \A m \in like : m <= j
    IN  load_signal_from_file(signal_files[last]).signal

----------------------------------------------------------------------------
(* Signal names across the three buckets                                   *)

\* C16 (as stated): in every reachable state of the signal registry no
\* signal name is a key of more than one of the metric, outcome and advisor
\* buckets.
C16_NameInOneBucket ==
    LET m == DictKeys(signal_registry.metrics)
        o == DictKeys(signal_registry.outcomes)
        a == DictKeys(signal_registry.advisors)
    IN  /\ m \cap o = {}
        /\ m \cap a = {}
        /\ o \cap a = {}

\* File i is the last decodable signal file with its name.
LastWithName(i) ==
    /\ signal_files[i].decodes
    /\ \A j \in (i + 1)..Len(signal_files) :
          signal_files[j].decodes => signal_files[j].name # signal_files[i].name

\* C17 (as stated): of two signal sources with the same name the one loaded
\* later wins, whatever their types: once the registry is loaded,
\* get_signal(name) returns the definition of the last loaded source that
\* has the name.
C17_LastLoadedSignalWins ==
    loaded =>
        \A i \in 1..Len(signal_files) :
            LastWithName(i) =>
                get_signal(signal_files[i].name) =
                    [found |-> TRUE, signal |-> load_signal_from_file(signal_files[i]).signal]

----------------------------------------------------------------------------
(* Entries of the result maps of load_all and unload_all                   *)

\* C18 (as stated): the result map of load_all has one entry per discovered
\* card, a card whose registration raised included, and the result map of
\* unload_all has one entry per tracked card.
C18_OneEntryPerCard ==
    /\ LoadReturned => Len(lop.results) = Len(discover_cards(card_files))
    /\ UnloadReturned => Len(lop.results) = Len(lop.snapshot)

RegisteredNames ==
    { lop.calls[i].card.name : i \in { j \in 1..Len(lop.calls) : lop.calls[j].out # 0 } }

\* C18 (amended): the result map of load_all has exactly one entry per
\* name under which a registration of this load_all returned an id, and no
\* entry for a card whose registration raised (unless a card of the same
\* name was registered); the result map of unload_all has exactly one entry
\* per card tracked when it started.
C18_OneEntryPerRegisteredName ==
    /\ LoadReturned =>
        /\ Len(lop.results) = Cardinality(RegisteredNames)
        /\ \A i \in 1..Len(lop.calls) :
              DictHas(lop.results, lop.calls[i].card.name)
                  <=> lop.calls[i].card.name \in RegisteredNames
    /\ UnloadReturned =>
        /\ Len(lop.results) = Len(lop.snapshot)
        /\ DictKeys(lop.results) = DictKeys(lop.snapshot)

\* The first card was registered, the registration of the second raised:
\* a result map of one entry for two discovered cards.
C18_Witness ==
    /\ LoadReturned
    /\ Len(lop.calls) = 2
    /\ lop.calls[1].out # 0
    /\ lop.calls[2].out = 0
    /\ lop.calls[1].card.name # lop.calls[2].card.name
    /\ Len(lop.results) = 1

----------------------------------------------------------------------------
(* The emitter's audit log                                                 *)

\* C19: the audit log is append-only: every step of the emitter other than
\* clear_emissions leaves the entries already recorded in place, in order
\* and with the values they were created with, adding entries only at the
\* end; the only step that removes entries is clear_emissions, and it
\* removes all of them.
C19_AuditLogAppendOnly ==
    [][ \/ IsPrefix(emissions, emissions')
        \/ (ClearEmissions /\ emissions' = << >>) ]_vars

\* A second entry was appended behind a first one by a later call.
C19_Witness ==
    /\ Len(emissions) = 2
    /\ eop.status = "returned"
    /\ eop.emissions_before = 1
    /\ emissions[1].emission_id # emissions[2].emission_id

----------------------------------------------------------------------------
(* Execution units that write to a target: DataExtractor, DataWriter,      *)
(* FeatureStoreWriter and DataReplicator. execute() is synchronous; its    *)
(* steps are the calls of the injected capabilities.                       *)

MaxWrites == 2     \* completed target writes in one behaviour

MIN_TTL_SECONDS == 60

MAX_TTL_SECONDS == 31536000

WritingUnits == {"DataExtractor", "DataWriter", "FeatureStoreWriter", "DataReplicator"}

\* The bytes a source-side capability returns.
Payloads == { <<1>>, <<1, 2>> }

\* hashlib.sha256(data).hexdigest()
sha256_hexdigest(data) ==
    IF data = <<1>>
    THEN "4bf5122f344554c53bde2ebb8cd2b7e3d1600ad631c385a5d7cce23c7785459a"
    ELSE "a12871fee210fb8619291eaea194581cbd2531e4b23759d225f6806923f63222"

\* The input of execute(): consistency_mode is read by DataReplicator and
\* ttl_seconds by FeatureStoreWriter only.
UnitInputs(unit) ==
    IF unit = "DataReplicator"
    THEN { [consistency_mode |-> m, ttl_seconds |-> MIN_TTL_SECONDS] :
               m \in {"strong", "eventual"} }
    ELSE IF unit = "FeatureStoreWriter"
    THEN { [consistency_mode |-> "eventual", ttl_seconds |-> t] :
               t \in {MIN_TTL_SECONDS - 1, MIN_TTL_SECONDS,
                      MAX_TTL_SECONDS, MAX_TTL_SECONDS + 1} }
    ELSE { [consistency_mode |-> "eventual", ttl_seconds |-> MIN_TTL_SECONDS] }

\* The exception classes a capability of the unit can raise: those of the
\* unit's module, and any other Exception.
UnitExceptions(unit) ==
    IF unit = "DataExtractor"
    THEN {"SourceReadError", "FormatError", "StagingWriteError", "QuotaExceededError", "Exception"}
    ELSE IF unit = "DataWriter"
    THEN {"StagingReadError", "TargetWriteError", "SchemaMismatchError", "QuotaExceededError", "Exception"}
    ELSE IF unit = "FeatureStoreWriter"
    THEN {"StagingReadError", "StoreWriteError", "StoreUnavailableError", "Exception"}
    ELSE {"SourceReadError", "TargetWriteError", "NetworkError", "Exception"}

Handler(exc, code, message, with_text) ==
    [k |-> exc, v |-> [code |-> code, message |-> message, with_text |-> with_text]]

\* The except clauses around the read of the source.
ReadHandlers(unit) ==
    IF unit = "DataExtractor"
    THEN << Handler("SourceReadError", "SOURCE_READ_FAILURE", "Failed to read from source: ", TRUE),
            Handler("FormatError", "FORMAT_ERROR", "Data format error: ", TRUE) >>
    ELSE IF unit = "DataReplicator"
    THEN << Handler("SourceReadError", "SOURCE_READ_FAILURE", "Failed to read from source: ", TRUE),
            Handler("NetworkError", "NETWORK_FAILURE", "Network error during read: ", TRUE) >>
    ELSE << Handler("StagingReadError", "STAGING_READ_FAILURE", "Failed to read from staging: ", TRUE) >>

\* The except clauses around the write to the target.
WriteHandlers(unit) ==
    IF unit = "DataExtractor"
    THEN << Handler("StagingWriteError", "TARGET_WRITE_FAILURE", "Failed to write to staging: ", TRUE),
            Handler("QuotaExceededError", "QUOTA_EXCEEDED", "Storage quota exceeded", FALSE) >>
    ELSE IF unit = "DataWriter"
    THEN << Handler("TargetWriteError", "TARGET_WRITE_FAILURE", "Failed to write to dataset: ", TRUE),
            Handler("SchemaMismatchError", "SCHEMA_MISMATCH", "Schema mismatch: ", TRUE),
            Handler("QuotaExceededError", "QUOTA_EXCEEDED", "Storage quota exceeded", FALSE) >>
    ELSE IF unit = "FeatureStoreWriter"
    THEN << Handler("StoreWriteError", "STORE_WRITE_FAILURE", "Failed to write to feature store: ", TRUE),
            Handler("StoreUnavailableError", "STORE_UNAVAILABLE", "Feature store is unavailable", FALSE) >>
    ELSE << Handler("TargetWriteError", "TARGET_WRITE_FAILURE", "Failed to write to target: ", TRUE),
            Handler("NetworkError", "NETWORK_FAILURE", "Network error during write: ", TRUE) >>

ExecutionOutput(result, error_code, error_message) ==
    [result |-> result, error_code |-> error_code, error_message |-> error_message]

\* A capability raised exc: the matching except clause returns its error
\* code, an exception no clause matches leaves execute().
execute_raised(op, handlers, exc, text) ==
    IF DictHas(handlers, exc)
    THEN LET h == DictGet(handlers, exc) IN
         [op EXCEPT !.status = "returned",
                    !.ret = ExecutionOutput(None, Str(<<h.code>>),
                                IF h.with_text THEN Str(<<h.message, text>>)
                                               ELSE Str(<<h.message>>))]
    ELSE [op EXCEPT !.status = "raised"]

\* execute() up to its first capability call.
execute_begin(unit, input, writes_before) ==
    LET op == [unit |-> unit, input |-> input, status |-> "reading",
               data |-> << >>, written |-> [count |-> 0, location |-> ""],
               ret |-> ExecutionOutput(None, None, None),
               writes_before |-> writes_before]
    IN  IF /\ unit = "FeatureStoreWriter"
           /\ (input.ttl_seconds < MIN_TTL_SECONDS \/ input.ttl_seconds > MAX_TTL_SECONDS)
        THEN [op EXCEPT !.status = "returned",
                        !.ret = ExecutionOutput(None, Str(<<"TTL_INVALID">>),
                                    Str(<<"TTL must be between ", "60", " and ",
                                          "31536000", " seconds">>))]
        ELSE op

\* The result object of a successful execute().
execute_result(op, written, target_checksum) ==
    IF op.unit = "DataReplicator"
    THEN [none |-> FALSE,
          value |-> [bytes_replicated |-> Len(op.data),
                     target_confirmed |-> written.location,
                     checksum_match |-> sha256_hexdigest(op.data) = target_checksum]]
    ELSE [none |-> FALSE,
          value |-> [written |-> written.count, location |-> written.location]]

execute_succeeded(op, written, target_checksum) ==
    [op EXCEPT !.status = "returned",
               !.written = written,
               !.ret = ExecutionOutput(execute_result(op, written, target_checksum), None, None)]

\* execute() after the write capability returned.
execute_write_returned(op, written) ==
    IF op.unit = "DataReplicator" /\ op.input.consistency_mode = "strong"
    THEN [op EXCEPT !.status = "verifying", !.written = written]
    ELSE execute_succeeded(op, written, sha256_hexdigest(op.data))

\* DataReplicator: the read-back of the target returned target_data.
execute_verify_returned(op, target_data) ==
    IF sha256_hexdigest(op.data) # sha256_hexdigest(target_data)
    THEN [op EXCEPT !.status = "returned",
                    !.ret = ExecutionOutput(None, Str(<<"CHECKSUM_MISMATCH">>),
                                Str(<<"Source and target checksums do not match">>))]
    ELSE execute_succeeded(op, op.written, sha256_hexdigest(target_data))

\* DataReplicator: the read-back raised; success with an unverified checksum.
execute_verify_raised(op) == execute_succeeded(op, op.written, "unverified")

UnitBusy == uop.status \in {"reading", "writing", "verifying"}

\* execute() of one of the four units is called.
ExecuteUnit ==
    /\ ~UnitBusy
    /\ Len(target_writes) < MaxWrites
    /\ \E unit \in WritingUnits :
        \E input \in UnitInputs(unit) :
            uop' = execute_begin(unit, input, Len(target_writes))
    /\ UNCHANGED target_writes
    /\ UNCHANGED <<loaderVars, emitterVars, intentVars, providerVars>>

\* The source-side capability returns the data.
ReadReturns ==
    /\ uop.status = "reading"
    /\ \E data \in Payloads :
        uop' = [uop EXCEPT !.status = "writing", !.data = data]
    /\ UNCHANGED target_writes
    /\ UNCHANGED <<loaderVars, emitterVars, intentVars, providerVars>>

\* The source-side capability raises.
ReadRaises ==
    /\ uop.status = "reading"
    /\ \E exc \in UnitExceptions(uop.unit) :
        \E text \in ExceptionTexts :
            uop' = execute_raised(uop, ReadHandlers(uop.unit), exc, text)
    /\ UNCHANGED target_writes
    /\ UNCHANGED <<loaderVars, emitterVars, intentVars, providerVars>>

\* The target-side capability completes the write and returns.
WriteReturns ==
    /\ uop.status = "writing"
    /\ target_writes' = Append(target_writes, [unit |-> uop.unit, data |-> uop.data])
    /\ uop' = execute_write_returned(uop, [count |-> Len(uop.data), location |-> "target"])
    /\ UNCHANGED <<loaderVars, emitterVars, intentVars, providerVars>>

\* The target-side capability raises: nothing was written.
WriteRaises ==
    /\ uop.status = "writing"
    /\ \E exc \in UnitExceptions(uop.unit) :
        \E text \in ExceptionTexts :
            uop' = execute_raised(uop, WriteHandlers(uop.unit), exc, text)
    /\ UNCHANGED target_writes
    /\ UNCHANGED <<loaderVars, emitterVars, intentVars, providerVars>>

\* DataReplicator: the read-back of the target returns what the target holds.
VerifyReturns ==
    /\ uop.status = "verifying"
    /\ \E target_data \in Payloads :
        uop' = execute_verify_returned(uop, target_data)
    /\ UNCHANGED target_writes
    /\ UNCHANGED <<loaderVars, emitterVars, intentVars, providerVars>>

\* DataReplicator: the read-back of the target raises.
VerifyRaises ==
    /\ uop.status = "verifying"
    /\ uop' = execute_verify_raised(uop)
    /\ UNCHANGED target_writes
    /\ UNCHANGED <<loaderVars, emitterVars, intentVars, providerVars>>

InitUnits ==
    /\ LoaderAtRest
    /\ ProviderAtRest
    /\ EmitterAtRest
    /\ IntentHandlerAtRest
    /\ uop = [status |-> "idle"]
    /\ target_writes = << >>

NextUnits ==
    \/ ExecuteUnit
    \/ ReadReturns
    \/ ReadRaises
    \/ WriteReturns
    \/ WriteRaises
    \/ VerifyReturns
    \/ VerifyRaises

SpecUnits == InitUnits /\ [][NextUnits]_vars

\* C20 (as stated): whenever DataExtractor, DataWriter, FeatureStoreWriter
\* or DataReplicator returns a non-null error_code, no write to the target
\* was completed during that call.
C20_NoWriteOnError ==
    (uop.status = "returned" /\ uop.ret.error_code # None) =>
        Len(target_writes) = uop.writes_before

----------------------------------------------------------------------------
(* Execution units with an optional flag: SchemaIntrospector (is_truncated),*)
(* DataProfiler (low_confidence), SchemaValidator and QualityGateEvaluator *)
(* (is_inconclusive), LocalitySignalGenerator (has_stale_signals).         *)
(* execute() is a sequence of capability calls, each returning or raising. *)

MAX_FIELDS == 1000

\* any(s.confidence < 0.5 ...): confidences are counted in hundredths.
STALE_CONFIDENCE == 50

\* The reference execute() is given: source_path, dataset_ref or asset_ref.
Refs == {"ref-1", "ref-2"}

FlagUnits == {"SchemaIntrospector", "DataProfiler", "SchemaValidator",
              "LocalitySignalGenerator", "QualityGateEvaluator"}

\* The capability calls of execute(), in order.
Stages(unit) ==
    IF unit = "SchemaIntrospector" THEN <<"read_schema">>
    ELSE IF unit = "DataProfiler" THEN <<"read_dataset", "compute_profile">>
    ELSE IF unit = "SchemaValidator" THEN <<"resolve", "read_dataset", "validate_schema">>
    ELSE IF unit = "QualityGateEvaluator" THEN <<"resolve", "read_dataset", "evaluate">>
    ELSE <<"get_asset", "get_environments", "probe_locality">>

\* What a capability call can return.
StageValues(unit, stage) ==
    IF unit = "SchemaIntrospector"
    THEN {0, MAX_FIELDS, MAX_FIELDS + 1}
    ELSE IF unit = "LocalitySignalGenerator" /\ stage = 1
    THEN {"none", "no_locations", "locations"}
    ELSE IF unit = "LocalitySignalGenerator" /\ stage = 3
    THEN { << >>, <<90>>, <<STALE_CONFIDENCE>>, <<STALE_CONFIDENCE - 1>>,
           <<90, STALE_CONFIDENCE - 1>> }
    ELSE IF stage = Len(Stages(unit))
    THEN BOOLEAN
    ELSE {"d1", "d2"}

\* The exception classes of the unit's module, and any other Exception.
FlagUnitExceptions(unit) ==
    IF unit = "SchemaIntrospector"
    THEN {"ConnectionFailureError", "AccessDeniedError", "SourceNotFoundError", "Exception"}
    ELSE IF unit = "DataProfiler"
    THEN {"DatasetReadError", "InvalidDatasetError", "ProfileTimeoutError", "Exception"}
    ELSE IF unit = "SchemaValidator"
    THEN {"SchemaUnavailableError", "DatasetReadError", "TypeInferenceError", "Exception"}
    ELSE IF unit = "QualityGateEvaluator"
    THEN {"RulesInvalidError", "DatasetReadError", "EvaluationTimeoutError", "Exception"}
    ELSE {"LocationUnreachableError", "ProbeTimeoutError", "Exception"}

\* An except clause: the output it returns. text stands for the pieces the
\* f-string adds ("e" for str(e), "arg" for a field of the input).
FlagHandler(exc, with_result, code, message, text, flag) ==
    [k |-> exc,
     v |-> [with_result |-> with_result, code |-> code, message |-> message,
            text |-> text, flag |-> flag]]

\* The except clauses around each capability call.
StageHandlers(unit, stage) ==
    IF unit = "SchemaIntrospector"
    THEN << FlagHandler("ConnectionFailureError", FALSE, Str(<<"CONNECTION_FAILURE">>),
                        "Failed to connect to data source", "", FALSE),
            FlagHandler("AccessDeniedError", FALSE, Str(<<"ACCESS_DENIED">>),
                        "Access denied to source", "", FALSE),
            FlagHandler("SourceNotFoundError", FALSE, Str(<<"SOURCE_NOT_FOUND">>),
                        "Source not found: ", "arg", FALSE) >>
    ELSE IF unit = "DataProfiler" /\ stage = 1
    THEN << FlagHandler("DatasetReadError", FALSE, Str(<<"DATASET_READ_FAILURE">>),
                        "Failed to read dataset: ", "e", FALSE),
            FlagHandler("InvalidDatasetError", FALSE, Str(<<"INVALID_DATASET">>),
                        "Invalid dataset: ", "e", FALSE) >>
    ELSE IF unit = "DataProfiler"
    THEN << FlagHandler("ProfileTimeoutError", FALSE, Str(<<"PROFILE_TIMEOUT">>),
                        "Profiling timed out", "", FALSE) >>
    ELSE IF unit = "SchemaValidator" /\ stage = 1
    THEN << FlagHandler("SchemaUnavailableError", FALSE, Str(<<"SCHEMA_UNAVAILABLE">>),
                        "Expected schema is unavailable", "", FALSE) >>
    ELSE IF unit = "SchemaValidator" /\ stage = 2
    THEN << FlagHandler("DatasetReadError", FALSE, Str(<<"DATASET_READ_FAILURE">>),
                        "Failed to read dataset: ", "e", TRUE) >>
    ELSE IF unit = "SchemaValidator"
    THEN << FlagHandler("TypeInferenceError", FALSE, Str(<<"TYPE_INFERENCE_FAILURE">>),
                        "Could not infer types from dataset", "", TRUE) >>
    ELSE IF unit = "QualityGateEvaluator" /\ stage = 1
    THEN << FlagHandler("RulesInvalidError", FALSE, Str(<<"RULES_INVALID">>),
                        "Invalid quality rules: ", "e", FALSE) >>
    ELSE IF unit = "QualityGateEvaluator" /\ stage = 2
    THEN << FlagHandler("DatasetReadError", FALSE, Str(<<"DATASET_READ_FAILURE">>),
                        "Failed to read dataset: ", "e", TRUE) >>
    ELSE IF unit = "QualityGateEvaluator"
    THEN << FlagHandler("EvaluationTimeoutError", FALSE, Str(<<"EVALUATION_TIMEOUT">>),
                        "Quality evaluation timed out", "", TRUE) >>
    ELSE IF unit = "LocalitySignalGenerator" /\ stage = 3
    THEN << FlagHandler("LocationUnreachableError", TRUE, None,
                        "Partial result: ", "e", TRUE),
            FlagHandler("ProbeTimeoutError", FALSE, Str(<<"PROBE_TIMEOUT">>),
                        "Locality probe timed out", "", TRUE) >>
    ELSE << >>

\* ExecutionOutput of a unit with an optional flag.
FlagOutput(result, error_code, error_message, flag) ==
    [result |-> result, error_code |-> error_code,
     error_message |-> error_message, flag |-> flag]

Value(v) == [none |-> FALSE, value |-> v]

\* The partial LocalityResult of the LocationUnreachableError clause.
PartialResult == Value([signals |-> <<0>>])

\* A capability raised exc: the matching except clause returns its output,
\* an exception no clause matches leaves execute().
flag_execute_raised(op, exc, text) ==
    LET handlers == StageHandlers(op.unit, op.stage) IN
    IF DictHas(handlers, exc)
    THEN LET h == DictGet(handlers, exc) IN
         [op EXCEPT !.status = "returned",
                    !.ret = FlagOutput(IF h.with_result THEN PartialResult ELSE None,
                                h.code,
                                IF h.text = "e" THEN Str(<<h.message, text>>)
                                ELSE IF h.text = "arg" THEN Str(<<h.message, op.ref>>)
                                ELSE Str(<<h.message>>),
                                h.flag)]
    ELSE [op EXCEPT !.status = "raised"]

\* The return of execute() after its last capability call returned value.
flag_execute_result(op, value) ==
    IF op.unit = "SchemaIntrospector"
    THEN FlagOutput(Value([fields |-> IF value > MAX_FIELDS THEN MAX_FIELDS ELSE value]),
                    None, None, value > MAX_FIELDS)
    ELSE IF op.unit = "DataProfiler"
    THEN FlagOutput(Value([profile |-> "profile"]), None, None, value)
    ELSE IF op.unit = "LocalitySignalGenerator"
    THEN FlagOutput(Value([signals |-> value]), None, None,
                    \E i \in 1..Len(value) : value[i] < STALE_CONFIDENCE)
    ELSE FlagOutput(Value([verdict |-> value]), None, None, FALSE)

\* execute() goes on after a capability call returned value.
flag_execute_returned(op, value) ==
    IF op.unit = "LocalitySignalGenerator" /\ op.stage = 1 /\ value = "none"
    THEN [op EXCEPT !.status = "returned",
                    !.ret = FlagOutput(None, Str(<<"ASSET_NOT_FOUND">>),
                                Str(<<"Asset not found: ", op.ref>>), FALSE)]
    ELSE IF op.unit = "LocalitySignalGenerator" /\ op.stage = 1 /\ value = "no_locations"
    THEN [op EXCEPT !.status = "returned",
                    !.ret = FlagOutput(Value([signals |-> << >>]), None, None, FALSE)]
    ELSE IF op.stage < Len(Stages(op.unit))
    THEN [op EXCEPT !.stage = op.stage + 1, !.locals = Append(op.locals, value)]
    ELSE [op EXCEPT !.status = "returned", !.ret = flag_execute_result(op, value)]

\* execute() of a unit with an optional flag is called.
ExecuteFlagUnit ==
    /\ uop.status # "calling"
    /\ \E unit \in FlagUnits :
        \E ref \in Refs :
            uop' = [unit |-> unit, ref |-> ref, status |-> "calling", stage |-> 1,
                    locals |-> << >>,
                    ret |-> FlagOutput(None, None, None, FALSE)]
    /\ UNCHANGED target_writes
    /\ UNCHANGED <<loaderVars, emitterVars, intentVars, providerVars>>

\* The capability called at the current stage returns.
CapabilityReturns ==
    /\ uop.status = "calling"
    /\ \E value \in StageValues(uop.unit, uop.stage) :
        uop' = flag_execute_returned(uop, value)
    /\ UNCHANGED target_writes
    /\ UNCHANGED <<loaderVars, emitterVars, intentVars, providerVars>>

\* The capability called at the current stage raises.
CapabilityRaises ==
    /\ uop.status = "calling"
    /\ \E exc \in FlagUnitExceptions(uop.unit) :
        \E text \in ExceptionTexts :
            uop' = flag_execute_raised(uop, exc, text)
    /\ UNCHANGED target_writes
    /\ UNCHANGED <<loaderVars, emitterVars, intentVars, providerVars>>

NextFlagUnits ==
    \/ ExecuteFlagUnit
    \/ CapabilityReturns
    \/ CapabilityRaises

SpecFlagUnits == InitUnits /\ [][NextFlagUnits]_vars

\* C21 (as stated): the optional flag of an execution unit is true only in
\* an output that carries a result and a null error_code; every output with
\* a non-null error_code has the flag false.
C21_FlagOnlyWithResult ==
    (uop.status = "returned" /\ uop.ret.flag) =>
        /\ uop.ret.result # None
        /\ uop.ret.error_code = None

\* C30 (as stated): every ExecutionOutput is either a result or an error:
\* result is null exactly when error_code is non-null, and error_message is
\* non-null exactly when error_code is non-null.
C30_ResultXorError ==
    uop.status = "returned" =>
        /\ (uop.ret.result = None) <=> (uop.ret.error_code # None)
        /\ (uop.ret.error_message # None) <=> (uop.ret.error_code # None)

----------------------------------------------------------------------------
(* DataFabricCapabilityProvider                                            *)

MaxRefusals == 1   \* provide_capability calls of one behaviour that return
                   \* false or raise

EXECUTION_UNIT_CAPABILITIES ==
    <<
       [k |-> "DataAssetRegistrar",
        v |-> [capability_type |-> "data-registration", compute_class |-> "cpu-small",
               memory_requirements |-> "low", io_pattern |-> "write-registry",
               tags |-> <<"registry", "metadata", "stateless">>]],
       [k |-> "ConnectionProbe",
        v |-> [capability_type |-> "connection-testing", compute_class |-> "cpu-small",
               memory_requirements |-> "low", io_pattern |-> "network-probe",
               tags |-> <<"connection", "health", "stateless">>]],
       [k |-> "SchemaIntrospector",
        v |-> [capability_type |-> "schema-discovery", compute_class |-> "cpu-small",
               memory_requirements |-> "low", io_pattern |-> "read-external",
               tags |-> <<"schema", "discovery", "stateless">>]],
       [k |-> "DataExtractor",
        v |-> [capability_type |-> "data-extraction", compute_class |-> "cpu-medium",
               memory_requirements |-> "medium", io_pattern |-> "read-external-write-staging",
               tags |-> <<"extraction", "ingestion", "stateless">>]],
       [k |-> "DataWriter",
        v |-> [capability_type |-> "data-writing", compute_class |-> "cpu-medium",
               memory_requirements |-> "medium", io_pattern |-> "read-staging-write-dataset",
               tags |-> <<"write", "persistence", "stateless">>]],
       [k |-> "TransformExecutor",
        v |-> [capability_type |-> "data-transformation", compute_class |-> "cpu-large",
               memory_requirements |-> "high", io_pattern |-> "read-process-write",
               tags |-> <<"transform", "processing", "stateless">>]],
       [k |-> "DataJoiner",
        v |-> [capability_type |-> "data-joining", compute_class |-> "cpu-large",
               memory_requirements |-> "high", io_pattern |-> "read-multi-write",
               tags |-> <<"join", "merge", "stateless">>]],
       [k |-> "AggregationComputer",
        v |-> [capability_type |-> "data-aggregation", compute_class |-> "cpu-medium",
               memory_requirements |-> "high", io_pattern |-> "read-aggregate-write",
               tags |-> <<"aggregation", "analytics", "stateless">>]],
       [k |-> "FeatureComputer",
        v |-> [capability_type |-> "feature-computation", compute_class |-> "cpu-large",
               memory_requirements |-> "high", io_pattern |-> "read-compute-write",
               tags |-> <<"feature", "ml", "stateless">>]],
       [k |-> "FeatureStoreWriter",
        v |-> [capability_type |-> "feature-storage", compute_class |-> "cpu-medium",
               memory_requirements |-> "medium", io_pattern |-> "read-staging-write-store",
               tags |-> <<"feature", "store", "stateless">>]],
       [k |-> "FeatureRetriever",
        v |-> [capability_type |-> "feature-retrieval", compute_class |-> "cpu-small",
               memory_requirements |-> "low", io_pattern |-> "read-store",
               tags |-> <<"feature", "retrieval", "stateless">>]],
       [k |-> "DataProfiler",
        v |-> [capability_type |-> "data-profiling", compute_class |-> "cpu-medium",
               memory_requirements |-> "medium", io_pattern |-> "read-analyze",
               tags |-> <<"profiling", "quality", "stateless">>]],
       [k |-> "SchemaValidator",
        v |-> [capability_type |-> "schema-validation", compute_class |-> "cpu-small",
               memory_requirements |-> "low", io_pattern |-> "read-validate",
               tags |-> <<"schema", "validation", "stateless">>]],
       [k |-> "DataCommitter",
        v |-> [capability_type |-> "data-versioning", compute_class |-> "cpu-small",
               memory_requirements |-> "low", io_pattern |-> "read-commit",
               tags |-> <<"commit", "versioning", "stateless">>]],
       [k |-> "BranchCreator",
        v |-> [capability_type |-> "data-branching", compute_class |-> "cpu-small",
               memory_requirements |-> "low", io_pattern |-> "write-registry",
               tags |-> <<"branch", "versioning", "stateless">>]],
       [k |-> "MergeComputer",
        v |-> [capability_type |-> "data-merging", compute_class |-> "cpu-medium",
               memory_requirements |-> "medium", io_pattern |-> "read-multi-compute",
               tags |-> <<"merge", "versioning", "stateless">>]],
       [k |-> "DataReplicator",
        v |-> [capability_type |-> "data-replication", compute_class |-> "cpu-medium",
               memory_requirements |-> "medium", io_pattern |-> "read-write-remote",
               tags |-> <<"replication", "locality", "stateless">>]],
       [k |-> "LocalitySignalGenerator",
        v |-> [capability_type |-> "locality-signaling", compute_class |-> "cpu-small",
               memory_requirements |-> "low", io_pattern |-> "read-probe",
               tags |-> <<"locality", "scheduling", "stateless">>]],
       [k |-> "LabelTaskCreator",
        v |-> [capability_type |-> "labeling-task", compute_class |-> "cpu-small",
               memory_requirements |-> "low", io_pattern |-> "write-registry",
               tags |-> <<"labeling", "task", "stateless">>]],
       [k |-> "LabelRecorder",
        v |-> [capability_type |-> "label-recording", compute_class |-> "cpu-small",
               memory_requirements |-> "low", io_pattern |-> "write-store",
               tags |-> <<"labeling", "annotation", "stateless">>]],
       [k |-> "LineageEdgeWriter",
        v |-> [capability_type |-> "lineage-recording", compute_class |-> "cpu-small",
               memory_requirements |-> "low", io_pattern |-> "write-registry",
               tags |-> <<"lineage", "provenance", "stateless">>]],
       [k |-> "QualityGateEvaluator",
        v |-> [capability_type |-> "quality-evaluation", compute_class |-> "cpu-medium",
               memory_requirements |-> "medium", io_pattern |-> "read-evaluate",
               tags |-> <<"quality", "gate", "stateless">>]]
    >>

\* Names get_capability_profile is asked for.
UnitNamesAsked == DictKeys(EXECUTION_UNIT_CAPABILITIES) \cup {"NoSuchUnit"}

\* Mutant of get_capability_profile: the name is ignored and the first
\* profile of the table is returned.
get_capability_profile_first(execution_unit_name) ==
    Value(EXECUTION_UNIT_CAPABILITIES[1].v)

\* DataFabricCapabilityProvider.get_capability_profile: dict.get
get_capability_profile(execution_unit_name) ==
    IF DictHas(EXECUTION_UNIT_CAPABILITIES, execution_unit_name)
    THEN Value(DictGet(EXECUTION_UNIT_CAPABILITIES, execution_unit_name))
    ELSE None

\* DataFabricCapabilityProvider.get_provided_capabilities
get_provided_capabilities == provided_capabilities

\* DataFabricCapabilityProvider.get_capability_count
get_capability_count == Len(EXECUTION_UNIT_CAPABILITIES)

\* provide_all_capabilities returns once every item has been handled.
provide_advance(op) ==
    IF op.todo = << >> THEN [op EXCEPT !.status = "returned"] ELSE op

\* The body of the try block after provide_capability returned success.
provide_returned(op, provided, name, success) ==
    [op |-> provide_advance([op EXCEPT !.todo = Tail(op.todo),
                                       !.results = DictSet(op.results, name, success),
                                       !.last_out = IF success THEN "true" ELSE "false",
                                       !.refusals = IF success THEN @ ELSE @ + 1]),
     provided |-> IF success THEN provided \cup {name} ELSE provided]

\* The except Exception handler of provide_all_capabilities.
provide_failed(op, provided, name) ==
    [op |-> provide_advance([op EXCEPT !.todo = Tail(op.todo),
                                       !.results = DictSet(op.results, name, FALSE),
                                       !.last_out = "raise",
                                       !.refusals = @ + 1]),
     provided |-> provided]

RefusalsSoFar == IF pop.status = "idle" THEN 0 ELSE pop.refusals

\* provide_all_capabilities up to its first await; without a scheduler every
\* unit is reported as provided.
ProvideAllCapabilities ==
    /\ pop.status # "awaiting"
    /\ pop' = IF ~mcop_scheduler
              THEN [status |-> "returned", todo |-> << >>,
                    refusals |-> RefusalsSoFar,
                    last_out |-> "none",
                    results |-> [ i \in 1..Len(EXECUTION_UNIT_CAPABILITIES) |->
                                    [k |-> EXECUTION_UNIT_CAPABILITIES[i].k, v |-> TRUE] ]]
              ELSE provide_advance([status |-> "awaiting",
                                    todo |-> EXECUTION_UNIT_CAPABILITIES,
                                    refusals |-> RefusalsSoFar, last_out |-> "none",
                                    results |-> EmptyDict])
    /\ UNCHANGED <<mcop_scheduler, provided_capabilities, profile_lookup>>
    /\ UNCHANGED <<loaderVars, emitterVars, intentVars, unitVars>>

\* provide_capability returns true or false.
ProvideReturns ==
    /\ pop.status = "awaiting"
    /\ \E success \in BOOLEAN :
        /\ ~success => pop.refusals < MaxRefusals
        /\ LET r == provide_returned(pop, provided_capabilities, Head(pop.todo).k, success)
           IN  /\ pop' = r.op
               /\ provided_capabilities' = r.provided
    /\ UNCHANGED <<mcop_scheduler, profile_lookup>>
    /\ UNCHANGED <<loaderVars, emitterVars, intentVars, unitVars>>

\* provide_capability raises an Exception.
ProvideRaises ==
    /\ pop.status = "awaiting"
    /\ pop.refusals < MaxRefusals
    /\ LET r == provide_failed(pop, provided_capabilities, Head(pop.todo).k)
       IN  /\ pop' = r.op
           /\ provided_capabilities' = r.provided
    /\ UNCHANGED <<mcop_scheduler, profile_lookup>>
    /\ UNCHANGED <<loaderVars, emitterVars, intentVars, unitVars>>

\* get_capability_profile is called.
GetCapabilityProfile ==
    /\ \E name \in UnitNamesAsked :
        profile_lookup' = [name |-> name, profile |-> get_capability_profile(name)]
    /\ UNCHANGED <<mcop_scheduler, provided_capabilities, pop>>
    /\ UNCHANGED <<loaderVars, emitterVars, intentVars, unitVars>>

InitProvider ==
    /\ LoaderAtRest
    /\ EmitterAtRest
    /\ IntentHandlerAtRest
    /\ UnitsAtRest
    /\ mcop_scheduler \in BOOLEAN
    /\ provided_capabilities = {}
    /\ pop = [status |-> "idle"]
    /\ profile_lookup = [name |-> ""]

NextProvider ==
    \/ ProvideAllCapabilities
    \/ ProvideReturns
    \/ ProvideRaises
    \/ GetCapabilityProfile

SpecProvider == InitProvider /\ [][NextProvider]_vars

ExpectedUnits ==
    {"DataAssetRegistrar", "ConnectionProbe", "SchemaIntrospector",
     "DataExtractor", "DataWriter", "TransformExecutor",
     "DataJoiner", "AggregationComputer", "FeatureComputer",
     "FeatureStoreWriter", "FeatureRetriever", "DataProfiler",
     "SchemaValidator", "DataCommitter", "BranchCreator",
     "MergeComputer", "DataReplicator", "LocalitySignalGenerator",
     "LabelTaskCreator", "LabelRecorder", "LineageEdgeWriter",
     "QualityGateEvaluator"}

\* The capability types the intent table gives for a unit name.
DecompositionTypes(name) ==
    UNION { { INTENT_TO_EXECUTION_UNITS[i].v[j].capability_type :
                j \in { n \in 1..Len(INTENT_TO_EXECUTION_UNITS[i].v) :
                          INTENT_TO_EXECUTION_UNITS[i].v[n].name = name } } :
            i \in 1..Len(INTENT_TO_EXECUTION_UNITS) }

\* C22: each of the 22 execution units has a capability profile:
\* get_capability_profile(name) is non-null with non-empty capability_type,
\* compute_class and memory_requirements and a tag list containing
\* 'stateless'; and for a unit referenced by an intent's decomposition the
\* profile's capability_type is the capability_type of the decomposition.
C22_EveryUnitHasProfile ==
    /\ DictKeys(EXECUTION_UNIT_CAPABILITIES) = ExpectedUnits
    /\ Cardinality(ExpectedUnits) = 22
    /\ \A i \in 1..Len(INTENT_TO_EXECUTION_UNITS) :
          \A j \in 1..Len(INTENT_TO_EXECUTION_UNITS[i].v) :
              INTENT_TO_EXECUTION_UNITS[i].v[j].name \in ExpectedUnits
    /\ profile_lookup.name \in ExpectedUnits =>
          /\ profile_lookup.profile # None
          /\ LET profile == profile_lookup.profile.value IN
             /\ profile.capability_type # ""
             /\ profile.compute_class # ""
             /\ profile.memory_requirements # ""
             /\ \E t \in 1..Len(profile.tags) : profile.tags[t] = "stateless"
             /\ \A type \in DecompositionTypes(profile_lookup.name) :
                   profile.capability_type = type

\* The profile of DataExtractor, a unit of the IngestData decomposition,
\* was looked up.
C22_Witness ==
    /\ profile_lookup.name = "DataExtractor"
    /\ profile_lookup.profile # None
    /\ profile_lookup.profile.value.capability_type = "data-extraction"
    /\ DecompositionTypes("DataExtractor") = {"data-extraction"}

----------------------------------------------------------------------------
(* Cancellation of load_all and unload_all                                 *)

\* The ids of the successful register_capability calls of the current
\* load_all for one name, in call order.
RegisteredFor(name) ==
    SelectSeq(lop.calls, LAMBDA c : c.card.name = name /\ c.out # 0)

\* The names whose unregister_capability call of the current unload_all
\* returned true.
UnregisteredNames ==
    { lop.calls[i].item.k : i \in { j \in 1..Len(lop.calls) : lop.calls[j].out = "true" } }

\* C23: when load_all or unload_all is cancelled at a suspension point, the
\* tracked table reflects exactly the items already processed: a card that
\* was registered is tracked with its returned id, a capability whose
\* unregistration returned true is gone, every other entry is as it was
\* when the call started, and the items not reached are untouched.
C23_CancelKeepsProcessedItems ==
    lop.status = "cancelled" =>
        /\ lop.kind = "load" =>
              /\ DictKeys(registered_cards) =
                    DictKeys(lop.snapshot) \cup
                        { lop.calls[i].card.name :
                            i \in { j \in 1..Len(lop.calls) : lop.calls[j].out # 0 } }
              /\ \A name \in DictKeys(registered_cards) :
                    LET ids == RegisteredFor(name) IN
                    DictGet(registered_cards, name) =
                        IF ids # << >> THEN ids[Len(ids)].out
                        ELSE DictGet(lop.snapshot, name)
        /\ lop.kind = "unload" =>
              /\ DictKeys(registered_cards) = DictKeys(lop.snapshot) \ UnregisteredNames
              /\ \A name \in DictKeys(registered_cards) :
                    DictGet(registered_cards, name) = DictGet(lop.snapshot, name)
              /\ \A i \in 1..Len(lop.todo) :
                    /\ DictHas(registered_cards, lop.todo[i].k)
                    /\ DictGet(registered_cards, lop.todo[i].k) = lop.todo[i].v

\* A load_all cancelled after one card was registered and before the next,
\* or an unload_all cancelled after one capability was unregistered.
C23_Witness ==
    /\ lop.status = "cancelled"
    /\ Len(lop.calls) = 1
    /\ lop.todo # << >>
    /\ \/ lop.kind = "load" /\ lop.calls[1].out # 0
             /\ DictHas(registered_cards, lop.calls[1].card.name)
       \/ lop.kind = "unload" /\ lop.calls[1].out = "true"
             /\ ~DictHas(registered_cards, lop.calls[1].item.k)

----------------------------------------------------------------------------
(* The loader's read-only calls                                            *)

MaxCallCards == 1   \* card files of the loader whose read-only calls are made

\* Mutant of caller_changes: the caller holds the loader's own dict.
caller_changes_shared(d, cards, key, remove) ==
    LET changed == IF remove THEN DictDel(cards, key) ELSE DictSet(cards, key, 0)
    IN  [d |-> changed, cards |-> changed]

\* The caller adds or removes a key of the dict get_registered_cards
\* returned; the dict is a new one, built by dict(self._registered_cards).
caller_changes(d, cards, key, remove) ==
    [d     |-> d,
     cards |-> IF remove THEN DictDel(cards, key) ELSE DictSet(cards, key, 0)]

\* get_registered_cards()
GetRegisteredCards ==
    /\ held.status \in {"none", "dropped"}
    /\ held' = [status |-> "cards", cards |-> get_registered_cards, count |-> 0]
    /\ UNCHANGED <<card_files, registered_cards, live, next_id, lop, prev_lop, discovered, tasks>>
    /\ UNCHANGED <<emitterVars, intentVars, unitVars, providerVars>>

\* get_card_count()
GetCardCount ==
    /\ held.status \in {"none", "dropped"}
    /\ held' = [status |-> "count", cards |-> << >>, count |-> get_card_count]
    /\ UNCHANGED <<card_files, registered_cards, live, next_id, lop, prev_lop, discovered, tasks>>
    /\ UNCHANGED <<emitterVars, intentVars, unitVars, providerVars>>

\* The caller changes the dict it got from get_registered_cards, once.
ChangeReturnedCards ==
    /\ held.status = "cards"
    /\ \E key \in DictKeys(held.cards) \cup {"caller-key"}, remove \in BOOLEAN :
        /\ remove => DictHas(held.cards, key)
        /\ LET r == caller_changes(registered_cards, held.cards, key, remove)
           IN  /\ registered_cards' = r.d
               /\ held' = [held EXCEPT !.status = "changed", !.cards = r.cards]
    /\ UNCHANGED <<card_files, live, next_id, lop, prev_lop, discovered, tasks>>
    /\ UNCHANGED <<emitterVars, intentVars, unitVars, providerVars>>

\* The caller holds nothing from a read-only call.
Resting == held.status \in {"none", "dropped"} /\ discovered.status = "none"

\* A step of a lifecycle call, taken while the caller holds nothing.
LifecycleStep == Resting /\ NextLoader

\* The caller drops what the read-only calls gave it.
DropReturned ==
    /\ ~Resting
    /\ held' = [status |-> "dropped", cards |-> << >>, count |-> 0]
    /\ discovered' = [status |-> "none", cards |-> << >>]
    /\ UNCHANGED <<card_files, registered_cards, live, next_id, lop, prev_lop, tasks>>
    /\ UNCHANGED <<emitterVars, intentVars, unitVars, providerVars>>

NextLoaderCalls ==
    \/ LifecycleStep
    \/ DiscoverCards
    \/ GetRegisteredCards
    \/ GetCardCount
    \/ ChangeReturnedCards
    \/ DropReturned

\* A loader as constructed, over a directory of few card files.
InitLoaderCalls ==
    /\ InitLoader
    /\ Len(card_files) <= MaxCallCards

\* A loader under its lifecycle calls and the read-only calls of a caller
\* that drops their results before the lifecycle call goes on.
SpecLoaderCalls == InitLoaderCalls /\ [][NextLoaderCalls]_vars

\* The step is the return of a register_capability call of load_all for name.
RegisteredStep(name) ==
    /\ lop.kind = "load" /\ lop.status = "awaiting"
    /\ Len(lop'.calls) = Len(lop.calls) + 1
    /\ LET call == lop'.calls[Len(lop'.calls)] IN
       call.card.name = name /\ call.out # 0

\* The step is a true return of an unregister_capability call of unload_all
\* for name.
UnregisteredStep(name) ==
    /\ lop.kind = "unload" /\ lop.status = "awaiting"
    /\ Len(lop'.calls) = Len(lop.calls) + 1
    /\ LET call == lop'.calls[Len(lop'.calls)] IN
       call.item.k = name /\ call.out = "true"

\* C24: a name enters the tracked table only through a successful
\* registration in load_all and leaves it only through a successful
\* unregistration in unload_all; discover_cards, get_registered_cards and
\* get_card_count leave the table unchanged, and a change of the dict
\* get_registered_cards returned does not change the loader.
C24_TableChangesOnlyInLifecycle ==
    [][ /\ \A name \in DictKeys(registered_cards') \ DictKeys(registered_cards) :
              RegisteredStep(name)
        /\ \A name \in DictKeys(registered_cards) \ DictKeys(registered_cards') :
              UnregisteredStep(name)
        /\ (discovered' # discovered \/ held' # held) =>
              /\ registered_cards' = registered_cards
              /\ lop' = lop
              /\ live' = live ]_vars

\* The caller removed a tracked name from the dict it got, and the loader
\* still tracks it.
C24_Witness ==
    /\ held.status = "changed"
    /\ registered_cards # EmptyDict
    /\ DictKeys(held.cards) # DictKeys(registered_cards)
    /\ discovered.status = "returned"

----------------------------------------------------------------------------
(* Symmetry of load_all and unload_all in the external asset registry      *)

\* C25 (as stated): after a serialized sequence of load_all and unload_all
\* calls that ends with an unload_all in which every unregister_capability
\* call returned true, every id a register_capability call returned has been
\* unregistered: the asset registry holds no capability of this loader.
C25_UnloadLeavesNothingLive ==
    (UnloadReturned /\ AllUnregistered) => live = {}

----------------------------------------------------------------------------
(* Two lifecycle calls overlapping on one loader                           *)

MaxOverlapCards == 1   \* card files of the loader the two tasks share

OverlapTasks == {1, 2}

TaskBusy(t) == tasks[t].status = "awaiting"

\* load_all of task t up to its first await.
StartLoadAllIn(t) ==
    /\ ~TaskBusy(t)
    /\ tasks' = [tasks EXCEPT ![t] =
                    Advance([kind |-> "load", status |-> "awaiting",
                             todo |-> discover_cards(card_files),
                             results |-> EmptyDict, calls |-> << >>,
                             snapshot |-> registered_cards])]
    /\ UNCHANGED <<card_files, registered_cards, live, next_id, lop, prev_lop,
                   discovered, held>>
    /\ UNCHANGED <<emitterVars, intentVars, unitVars, providerVars>>

\* register_capability returns a fresh id to task t.
RegisterReturnsIn(t) ==
    /\ TaskBusy(t) /\ tasks[t].kind = "load"
    /\ next_id <= MaxIds
    /\ LET r == load_all_registered(tasks[t], registered_cards,
                                    Head(tasks[t].todo), next_id)
       IN  /\ tasks' = [tasks EXCEPT ![t] = r.op]
           /\ registered_cards' = r.d
    /\ live' = live \cup {next_id}
    /\ next_id' = next_id + 1
    /\ UNCHANGED <<card_files, lop, prev_lop, discovered, held>>
    /\ UNCHANGED <<emitterVars, intentVars, unitVars, providerVars>>

\* register_capability raises an Exception in task t.
RegisterRaisesIn(t) ==
    /\ TaskBusy(t) /\ tasks[t].kind = "load"
    /\ LET r == load_all_failed(tasks[t], registered_cards, Head(tasks[t].todo))
       IN  /\ tasks' = [tasks EXCEPT ![t] = r.op]
           /\ registered_cards' = r.d
    /\ UNCHANGED <<card_files, live, next_id, lop, prev_lop, discovered, held>>
    /\ UNCHANGED <<emitterVars, intentVars, unitVars, providerVars>>

\* unload_all of task t up to its first await: the loop runs over a copy of
\* the items taken now.
StartUnloadAllIn(t) ==
    /\ ~TaskBusy(t)
    /\ tasks' = [tasks EXCEPT ![t] =
                    Advance([kind |-> "unload", status |-> "awaiting",
                             todo |-> registered_cards,
                             results |-> EmptyDict, calls |-> << >>,
                             snapshot |-> registered_cards])]
    /\ UNCHANGED <<card_files, registered_cards, live, next_id, lop, prev_lop,
                   discovered, held>>
    /\ UNCHANGED <<emitterVars, intentVars, unitVars, providerVars>>

\* unregister_capability returns true or false to task t.
UnregisterReturnsIn(t) ==
    /\ TaskBusy(t) /\ tasks[t].kind = "unload"
    /\ \E success \in BOOLEAN :
        LET item == Head(tasks[t].todo)
            r == unload_all_returned(tasks[t], registered_cards, item, success)
        IN  /\ tasks' = [tasks EXCEPT ![t] = r.op]
            /\ registered_cards' = r.d
            /\ live' = IF success THEN live \ {item.v} ELSE live
    /\ UNCHANGED <<card_files, next_id, lop, prev_lop, discovered, held>>
    /\ UNCHANGED <<emitterVars, intentVars, unitVars, providerVars>>

\* unregister_capability raises an Exception in task t.
UnregisterRaisesIn(t) ==
    /\ TaskBusy(t) /\ tasks[t].kind = "unload"
    /\ LET r == unload_all_failed(tasks[t], registered_cards, Head(tasks[t].todo))
       IN  /\ tasks' = [tasks EXCEPT ![t] = r.op]
           /\ registered_cards' = r.d
    /\ UNCHANGED <<card_files, live, next_id, lop, prev_lop, discovered, held>>
    /\ UNCHANGED <<emitterVars, intentVars, unitVars, providerVars>>

NextOverlap ==
    \E t \in OverlapTasks :
        \/ StartLoadAllIn(t)
        \/ RegisterReturnsIn(t)
        \/ RegisterRaisesIn(t)
        \/ StartUnloadAllIn(t)
        \/ UnregisterReturnsIn(t)
        \/ UnregisterRaisesIn(t)

\* A loader as constructed, over a directory of few card files, each of
\* them a complete card.
InitOverlap ==
    /\ InitLoader
    /\ Len(card_files) <= MaxOverlapCards
    /\ \A i \in 1..Len(card_files) :
          card_files[i].decodes /\ card_files[i].has_name /\ card_files[i].has_type

\* One loader whose load_all and unload_all are called by two tasks that
\* do not serialize their calls.
SpecOverlap == InitOverlap /\ [][NextOverlap]_vars

\* The names the step removes from the tracked table.
RemovedNames == DictKeys(registered_cards) \ DictKeys(registered_cards')

\* In this step unregister_capability returns true to an unload_all for the
\* item it holds for name.
TrueReturnFor(t, name) ==
    /\ tasks[t].kind = "unload" /\ tasks[t].status = "awaiting"
    /\ Head(tasks[t].todo).k = name
    /\ Len(tasks'[t].calls) = Len(tasks[t].calls) + 1
    /\ tasks'[t].calls[Len(tasks'[t].calls)].out = "true"

\* C26 (as stated): under overlapping calls unload_all removes a name only
\* if the id it has just unregistered is the id tracked for that name, and
\* the tracked table never loses a capability that is live in the registry.
C26_RemovesOnlyTheTrackedId ==
    [][ \A name \in RemovedNames :
          /\ \E t \in OverlapTasks :
                /\ TrueReturnFor(t, name)
                /\ Head(tasks[t].todo).v = DictGet(registered_cards, name)
          /\ DictGet(registered_cards, name) \notin live' ]_vars

\* C26 (amended): under overlapping calls unload_all removes a name only
\* when unregister_capability has just returned true for the id unload_all
\* read for that name when it started; the id tracked at that moment is not
\* compared, so the table can lose a capability that is still live.
C26_RemovesAfterTrueReturn ==
    [][ \A name \in RemovedNames :
          \E t \in OverlapTasks : TrueReturnFor(t, name) ]_vars

\* An unload_all unregistered the id it had read for a name while a
\* load_all of the other task had tracked a newer id for it: the name is
\* gone from the table and the newer id is live.
C26_Witness ==
    \E t \in OverlapTasks, u \in OverlapTasks :
        /\ t # u
        /\ tasks[t].kind = "unload" /\ tasks[u].kind = "load"
        /\ \E i \in 1..Len(tasks[t].calls), j \in 1..Len(tasks[u].calls) :
              /\ tasks[t].calls[i].out = "true"
              /\ tasks[u].calls[j].out # 0
              /\ tasks[u].calls[j].card.name = tasks[t].calls[i].item.k
              /\ tasks[u].calls[j].out # tasks[t].calls[i].item.v
              /\ tasks[u].calls[j].out \in live
              /\ ~DictHas(registered_cards, tasks[t].calls[i].item.k)

----------------------------------------------------------------------------
(* The answer of decompose_intent                                          *)

\* C27 (as stated): with an intent engine configured, handle_intent returns
\* success=true only if the awaited decompose_intent returned true; when it
\* returned false, handle_intent returns success=false.
C27_SuccessOnlyIfAccepted ==
    (iop.status = "returned" /\ intent_engine /\ iop.engine_out # "none") =>
        /\ iop.ret.success => iop.engine_out = "true"
        /\ iop.engine_out = "false" => ~iop.ret.success

----------------------------------------------------------------------------
(* What reaches the observability spine                                    *)

\* C28 (as stated): the payload of every call the spine receives has
\* intent_id equal to the caller's intent id and domain equal to
\* 'data-fabric', whatever the keys of values / execution_result, and the
\* tenant context is the caller's.
C28_PayloadKeepsIntentAndDomain ==
    \A i \in (eop.spine_before + 1)..Len(spine_calls) :
        /\ DictGet(spine_calls[i].value, "intent_id") = Str(<<eop.intent_id>>)
        /\ DictGet(spine_calls[i].value, "domain") = Str(<<"data-fabric">>)
        /\ spine_calls[i].tenant_context = eop.tenant_context

\* C29 (as stated): every EmissionResult with success=false carries a
\* non-null error and every one with success=true has error null, also when
\* the spine returned false without raising.
C29_ErrorIffFailure ==
    /\ \A i \in 1..Len(emissions) :
          emissions[i].success <=> emissions[i].error = None
    /\ (eop.kind \in EmitKinds /\ eop.status = "returned") =>
          (eop.ret.success <=> eop.ret.error = None)

====
